---- MODULE Spec2Model ----
(***************************************************************************)
(* A model of the SPDY/3 frame codec of go-spdy: Framer.WriteFrame on one  *)
(* Framer, a byte pipe, and Framer.ReadFrame on the peer Framer.           *)
(*                                                                         *)
(* Byte strings (the pipe, Data payloads, the scratch buffer) are kept     *)
(* run-length encoded, so that a payload of 2^24 bytes is one run.  32-bit *)
(* words are kept as [hi, lo]: the top 8 bits and the low 24 bits, which   *)
(* is how the wire format packs flags/length, flag/id and the reserved     *)
(* bit, and which keeps every number inside TLC's integers.                *)
(***************************************************************************)
EXTENDS Integers, Sequences, FiniteSets, TLC

\* ------------------------------------------------------------------ bounds

\* Frames put on the pipe in one behaviour (by WriteFrame or by PeerSend).
MaxFrames == 2
MaxFailAt == 11

\* ------------------------------------------------------- program constants

Version == 3
TypeSynStream == 1
TypeSynReply == 2
TypeRstStream == 3
TypeSettings == 4
TypePing == 6
TypeGoAway == 7
TypeHeaders == 8
TypeWindowUpdate == 9
MaxDataLength == 16777215
\* the bound writeDataFrame tests len(frame.Data) against (0x0f000000)
DataLengthLimit == 251658240
\* bufio's default buffer, which compress/flate puts around the LimitedReader
BufSize == 4096

TwoTo24 == 16777216

\* ------------------------------------------------------------ byte strings

Run(n, b) == [n |-> n, b |-> b]

AppendRun(s, r) ==
  IF r.n = 0 THEN s
  ELSE IF s # <<>> /\ s[Len(s)].b = r.b
       THEN [s EXCEPT ![Len(s)].n = @ + r.n]
       ELSE Append(s, r)

\* s followed by t, the runs of t being maximal as those of s are
Cat(s, t) == IF t = <<>> THEN s ELSE AppendRun(s, Head(t)) \o Tail(t)

RECURSIVE Bytes(_)
\* a plain sequence of bytes as a byte string
Bytes(bs) ==
  IF bs = <<>> THEN <<>>
  ELSE IF Len(bs) = 1 THEN <<Run(1, bs[1])>>
  ELSE Cat(Bytes(SubSeq(bs, 1, Len(bs) \div 2)),
           Bytes(SubSeq(bs, Len(bs) \div 2 + 1, Len(bs))))

RECURSIVE Size(_)
Size(s) == IF s = <<>> THEN 0 ELSE Head(s).n + Size(Tail(s))

RECURSIVE Take(_, _)
Take(s, k) ==
  IF k = 0 \/ s = <<>> THEN <<>>
  ELSE IF Head(s).n <= k
       THEN <<Head(s)>> \o Take(Tail(s), k - Head(s).n)
       ELSE <<Run(k, Head(s).b)>>

RECURSIVE Drop(_, _)
Drop(s, k) ==
  IF k = 0 \/ s = <<>> THEN s
  ELSE IF Head(s).n <= k
       THEN Drop(Tail(s), k - Head(s).n)
       ELSE <<Run(Head(s).n - k, Head(s).b)>> \o Tail(s)

RECURSIVE Plain(_)
\* the bytes of a (short) byte string, one by one
Plain(s) ==
  IF s = <<>> THEN <<>>
  ELSE IF Head(s).n = 1 THEN <<Head(s).b>> \o Plain(Tail(s))
       ELSE <<Head(s).b>> \o Plain(<<Run(Head(s).n - 1, Head(s).b)>> \o Tail(s))

\* ------------------------------------------------------------ 32-bit words

\* a uint32 as its top 8 bits and its low 24 bits
U32(h, l) == [hi |-> h, lo |-> l]
W(n) == U32((n \div TwoTo24) % 256, n % TwoTo24)
IsZero(u) == u.hi = 0 /\ u.lo = 0
TopBit(u) == u.hi >= 128

RECURSIVE Or8(_, _)
\* bitwise OR of two bytes
Or8(a, b) ==
  IF a = 0 THEN b
  ELSE IF b = 0 THEN a
  ELSE 2 * Or8(a \div 2, b \div 2) + (IF a % 2 = 1 \/ b % 2 = 1 THEN 1 ELSE 0)

\* (uint32(x) << 24) | u
Shl24Or(x, u) == U32(Or8(x % 256, u.hi), u.lo)

\* binary.BigEndian
BE32(u) == <<u.hi, u.lo \div 65536, (u.lo \div 256) % 256, u.lo % 256>>
BE16(n) == <<(n \div 256) % 256, n % 256>>
FromBE32(bs) == U32(bs[1], (bs[2] * 256 + bs[3]) * 256 + bs[4])

\* ------------------------------------------------------------------ errors

Nil == [Err |-> "nil"]
Error(code, sid) == [Err |-> code, StreamId |-> sid]
EOF == [Err |-> "EOF"]
ErrUnexpectedEOF == [Err |-> "unexpected EOF"]
ErrSink == [Err |-> "sink write failed"]
ErrHeader == [Err |-> "zlib: invalid header"]
ErrCorrupt == [Err |-> "flate: corrupt input"]

UnlowercasedHeaderName == "header was not lowercased"
DuplicateHeaders == "multiple headers with same name"
WrongCompressedPayloadSize == "compressed payload size was incorrect"
InvalidControlFrame == "invalid control frame"
InvalidDataFrame == "invalid data frame"
InvalidHeaderPresent == "frame contained invalid header"
ZeroStreamId == "stream id zero is disallowed"

\* ----------------------------------------------------------- header blocks

headerValueSeparator == 0

ToLowerByte(c) == IF c >= 65 /\ c <= 90 THEN c + 32 ELSE c
ToUpperByte(c) == IF c >= 97 /\ c <= 122 THEN c - 32 ELSE c
\* strings.ToLower
ToLower(name) == [i \in 1..Len(name) |-> ToLowerByte(name[i])]

RECURSIVE Join(_)
\* strings.Join(values, headerValueSeparator)
Join(values) ==
  IF values = <<>> THEN <<>>
  ELSE IF Len(values) = 1 THEN values[1]
  ELSE values[1] \o <<headerValueSeparator>> \o Join(Tail(values))

RECURSIVE SplitFrom(_, _)
SplitFrom(value, cur) ==
  IF value = <<>> THEN <<cur>>
  ELSE IF Head(value) = headerValueSeparator
       THEN <<cur>> \o SplitFrom(Tail(value), <<>>)
       ELSE SplitFrom(Tail(value), Append(cur, Head(value)))

\* Split that takes the joined value for one value
SplitNot(value) == <<value>>

\* strings.Split(value, headerValueSeparator)
Split(value) == SplitFrom(value, <<>>)

RECURSIVE writeHeaderValueBlock(_, _)
\* The entries of h in the order the map iteration visits them (order): the
\* bytes handed to the writer after the 32-bit count.
writeHeaderValueBlock(h, order) ==
  IF order = <<>> THEN <<>>
  ELSE LET name == Head(order)
           v == Join(h[name])
       IN BE32(W(Len(name))) \o ToLower(name) \o BE32(W(Len(v))) \o v
          \o writeHeaderValueBlock(h, Tail(order))

\* uint32(len(h)) followed by the entries
HeaderBlock(h, order) == BE32(W(Len(order))) \o writeHeaderValueBlock(h, order)

\* ---------------------------------------------------------------- zlib

\* CMF, FLG (best compression, preset dictionary) and Adler-32 of HeaderDictionary
ZlibHeader == <<120, 249, 227, 198, 167, 194>>
\* the empty stored block a SYNC_FLUSH ends with
SyncMarker == <<0, 0, 255, 255>>

\* The deflate stream depends on everything compressed before: the block a
\* compressor emits after k earlier blocks is keyed by k.
Key(k) == (37 * k + 11) % 256

\* headerCompressor.Write(raw); headerCompressor.Flush(): the bytes that reach
\* the scratch buffer.  z.k counts the blocks flushed so far.
Deflate(z, raw) ==
  LET n == Len(raw)
  IN (IF z.k = 0 THEN ZlibHeader ELSE <<>>)
     \o <<n % 256, n \div 256, 255 - (n % 256), 255 - (n \div 256)>>
     \o [i \in 1..n |-> (raw[i] + Key(z.k)) % 256]
     \o SyncMarker

\* ------------------------------------------------------------- write side

ControlFrameHeader(v, t, fl, len) ==
  [version |-> v, frameType |-> t, Flags |-> fl, length |-> len]

\* one call of a Write method of the sink
Wr(bs) == [t |-> "w", b |-> Bytes(bs)]
WrRaw(s) == [t |-> "w", b |-> s]
\* a return with a codec error between two sink writes
Ret(e) == [t |-> "ret", e |-> e]

\* What a write method does: the frame as it leaves it, the sink writes and
\* early returns in program order, the compressor and the scratch buffer as
\* the marshalling leaves them, and whether the method ends with
\* headerBuf.Reset().
\* Written by a method that takes the headers out of the frame value
WrittenHeadersTaken(f, frame, script, reset) ==
  [frame |-> IF reset THEN [frame EXCEPT !.Headers = <<>>] ELSE frame,
   script |-> script, headerCompressor |-> f.headerCompressor,
   headerBuf |-> f.headerBuf, reset |-> reset]

\* Written by a method that never ends with headerBuf.Reset()
WrittenNoReset(f, frame, script, reset) ==
  [frame |-> frame, script |-> script, headerCompressor |-> f.headerCompressor,
   headerBuf |-> f.headerBuf, reset |-> FALSE]

Written(f, frame, script, reset) ==
  [frame |-> frame, script |-> script, headerCompressor |-> f.headerCompressor,
   headerBuf |-> f.headerBuf, reset |-> reset]

\* writeControlFrameHeader without the control bit
writeControlFrameHeaderNoBit(h) ==
  << Wr(BE16(h.version % 32768)),
     Wr(BE16(h.frameType)),
     Wr(BE32(Shl24Or(h.Flags, W(h.length)))) >>

writeControlFrameHeader(h) ==
  << Wr(BE16(32768 + (h.version % 32768))),
     Wr(BE16(h.frameType)),
     Wr(BE32(Shl24Or(h.Flags, W(h.length)))) >>

RstStreamFrame_write(f, frame) ==
  IF IsZero(frame.StreamId)
  THEN Written(f, frame, <<Ret(Error(ZeroStreamId, W(0)))>>, FALSE)
  ELSE LET fr == [frame EXCEPT !.CFHeader =
                    ControlFrameHeader(Version, TypeRstStream, 0, 8)]
       IN Written(f, fr,
            writeControlFrameHeader(fr.CFHeader)
            \o <<Wr(BE32(fr.StreamId))>>
            \o (IF IsZero(fr.Status)
                THEN <<Ret(Error(InvalidControlFrame, fr.StreamId))>>
                ELSE <<Wr(BE32(fr.Status))>>),
            FALSE)

RECURSIVE SettingsEntries(_)
SettingsEntries(fivs) ==
  IF fivs = <<>> THEN <<>>
  ELSE << Wr(BE32(Shl24Or(Head(fivs).Flag, Head(fivs).Id))),
          Wr(BE32(Head(fivs).Value)) >> \o SettingsEntries(Tail(fivs))

SettingsFrame_write(f, frame) ==
  LET fr == [frame EXCEPT !.CFHeader =
               ControlFrameHeader(Version, TypeSettings, @.Flags,
                                  Len(frame.FlagIdValues) * 8 + 4)]
  IN Written(f, fr,
       writeControlFrameHeader(fr.CFHeader)
       \o <<Wr(BE32(W(Len(fr.FlagIdValues))))>>
       \o SettingsEntries(fr.FlagIdValues),
       FALSE)

\* PingFrame_write that keeps the flags the caller put in the common header
PingFrame_writeCallerFlags(f, frame) ==
  IF IsZero(frame.Id)
  THEN Written(f, frame, <<Ret(Error(ZeroStreamId, W(0)))>>, FALSE)
  ELSE Written(f, [frame EXCEPT !.CFHeader =
                     ControlFrameHeader(Version, TypePing, @.Flags, 4)],
               writeControlFrameHeader(ControlFrameHeader(Version, TypePing,
                                                          frame.CFHeader.Flags, 4))
               \o <<Wr(BE32(frame.Id))>>,
               FALSE)

PingFrame_write(f, frame) ==
  IF IsZero(frame.Id)
  THEN Written(f, frame, <<Ret(Error(ZeroStreamId, W(0)))>>, FALSE)
  ELSE LET fr == [frame EXCEPT !.CFHeader =
                    ControlFrameHeader(Version, TypePing, 0, 4)]
       IN Written(f, fr,
            writeControlFrameHeader(fr.CFHeader) \o <<Wr(BE32(fr.Id))>>,
            FALSE)

GoAwayFrame_write(f, frame) ==
  LET fr == [frame EXCEPT !.CFHeader =
               ControlFrameHeader(Version, TypeGoAway, 0, 8)]
  IN Written(f, fr,
       writeControlFrameHeader(fr.CFHeader)
       \o <<Wr(BE32(fr.LastGoodStreamId)), Wr(BE32(fr.GoAwayStatus))>>,
       FALSE)

WindowUpdateFrame_write(f, frame) ==
  LET fr == [frame EXCEPT !.CFHeader =
               ControlFrameHeader(Version, TypeWindowUpdate, 0, 8)]
  IN Written(f, fr,
       writeControlFrameHeader(fr.CFHeader)
       \o <<Wr(BE32(fr.StreamId)), Wr(BE32(fr.DeltaWindowSize))>>,
       FALSE)

\* MarshalHeaders with a compressor that starts over for every block
MarshalHeadersAfresh(f, h, order) ==
  [f EXCEPT !.headerBuf = Cat(@, Bytes(Deflate([k |-> 0], HeaderBlock(h, order))))]

\* "Marshal the headers": the header block goes through the compressor into
\* the scratch buffer, or straight into it when compression is disabled.
MarshalHeaders(f, h, order) ==
  IF f.headerCompressionDisabled
  THEN [f EXCEPT !.headerBuf = Cat(@, Bytes(HeaderBlock(h, order)))]
  ELSE [f EXCEPT
          !.headerBuf = Cat(@, Bytes(Deflate(f.headerCompressor,
                                             HeaderBlock(h, order)))),
          !.headerCompressor = [k |-> @.k + 1]]

writeSynStreamFrame(f, frame, order) ==
  IF IsZero(frame.StreamId)
  THEN Written(f, frame, <<Ret(Error(ZeroStreamId, W(0)))>>, FALSE)
  ELSE LET g == MarshalHeaders(f, frame.Headers, order)
           fr == [frame EXCEPT !.CFHeader =
                    ControlFrameHeader(Version, TypeSynStream, @.Flags,
                                       Size(g.headerBuf) + 10)]
       IN Written(g, fr,
            writeControlFrameHeader(fr.CFHeader)
            \o << Wr(BE32(fr.StreamId)),
                  Wr(BE32(fr.AssociatedToStreamId)),
                  Wr(<<(fr.Priority * 32) % 256>>),
                  Wr(<<fr.Slot>>),
                  WrRaw(g.headerBuf) >>,
            TRUE)

\* writeSynReplyFrame testing the stream id after it marshalled the headers
writeSynReplyFrameMarshalFirst(f, frame, order) ==
  LET g == MarshalHeaders(f, frame.Headers, order)
      fr == [frame EXCEPT !.CFHeader =
               ControlFrameHeader(Version, TypeSynReply, @.Flags,
                                  Size(g.headerBuf) + 4)]
  IN IF IsZero(frame.StreamId)
     THEN Written(g, frame, <<Ret(Error(ZeroStreamId, W(0)))>>, FALSE)
     ELSE Written(g, fr,
            writeControlFrameHeader(fr.CFHeader)
            \o <<Wr(BE32(fr.StreamId)), WrRaw(g.headerBuf)>>,
            TRUE)

writeSynReplyFrame(f, frame, order) ==
  IF IsZero(frame.StreamId)
  THEN Written(f, frame, <<Ret(Error(ZeroStreamId, W(0)))>>, FALSE)
  ELSE LET g == MarshalHeaders(f, frame.Headers, order)
           fr == [frame EXCEPT !.CFHeader =
                    ControlFrameHeader(Version, TypeSynReply, @.Flags,
                                       Size(g.headerBuf) + 4)]
       IN Written(g, fr,
            writeControlFrameHeader(fr.CFHeader)
            \o <<Wr(BE32(fr.StreamId)), WrRaw(g.headerBuf)>>,
            TRUE)

writeHeadersFrame(f, frame, order) ==
  IF IsZero(frame.StreamId)
  THEN Written(f, frame, <<Ret(Error(ZeroStreamId, W(0)))>>, FALSE)
  ELSE LET g == MarshalHeaders(f, frame.Headers, order)
           fr == [frame EXCEPT !.CFHeader =
                    ControlFrameHeader(Version, TypeHeaders, @.Flags,
                                       Size(g.headerBuf) + 4)]
       IN Written(g, fr,
            writeControlFrameHeader(fr.CFHeader)
            \o <<Wr(BE32(fr.StreamId)), WrRaw(g.headerBuf)>>,
            TRUE)

writeDataFrame(f, frame) ==
  IF IsZero(frame.StreamId)
  THEN Written(f, frame, <<Ret(Error(ZeroStreamId, W(0)))>>, FALSE)
  ELSE IF TopBit(frame.StreamId) \/ Size(frame.Data) >= DataLengthLimit
  THEN Written(f, frame, <<Ret(Error(InvalidDataFrame, frame.StreamId))>>, FALSE)
  ELSE Written(f, frame,
         << Wr(BE32(frame.StreamId)),
            Wr(BE32(Shl24Or(frame.Flags, W(Size(frame.Data))))),
            WrRaw(frame.Data) >>,
         FALSE)

\* frame.write(f): the dispatch of the Frame interface
write(f, frame, order) ==
  CASE frame.kind = "SynStream" -> writeSynStreamFrame(f, frame, order)
    [] frame.kind = "SynReply" -> writeSynReplyFrame(f, frame, order)
    [] frame.kind = "RstStream" -> RstStreamFrame_write(f, frame)
    [] frame.kind = "Settings" -> SettingsFrame_write(f, frame)
    [] frame.kind = "Ping" -> PingFrame_write(f, frame)
    [] frame.kind = "GoAway" -> GoAwayFrame_write(f, frame)
    [] frame.kind = "Headers" -> writeHeadersFrame(f, frame, order)
    [] frame.kind = "WindowUpdate" -> WindowUpdateFrame_write(f, frame)
    [] frame.kind = "Data" -> writeDataFrame(f, frame)

RECURSIVE Emit(_, _, _, _)
\* Runs the sink writes of a write method.  calls counts the sink's Write
\* calls so far and the failAt-th of them fails (0: none does).  A method
\* returns at its first failing write or at its first early return; the
\* result holds what reached the sink, the error returned, and whether the
\* method ran to its end.
Emit(script, out, calls, failAt) ==
  IF script = <<>> THEN [out |-> out, err |-> Nil, calls |-> calls, done |-> TRUE]
  ELSE IF Head(script).t = "ret"
  THEN [out |-> out, err |-> Head(script).e, calls |-> calls, done |-> FALSE]
  ELSE IF calls + 1 = failAt
  THEN [out |-> out, err |-> ErrSink, calls |-> calls + 1, done |-> FALSE]
  ELSE Emit(Tail(script), Append(out, Head(script).b), calls + 1, failAt)

\* -------------------------------------------------------------- read side

Min(a, b) == IF a <= b THEN a ELSE b

\* The reading half of a Framer is [src, N, z]: the bytes the source f.r still
\* holds, headerReader.N, and headerDecompressor.  z.made is FALSE while
\* headerDecompressor is nil; z.buf is what its buffered reader has taken from
\* headerReader and not yet inflated, z.out what it has inflated and nobody has
\* read, z.k the blocks it has inflated, z.err its sticky error.
NoDecompressor == [made |-> FALSE, k |-> 0, buf |-> <<>>, out |-> <<>>, err |-> Nil]

\* a uint32 as an int (64-bit in the program); a value from 2^31 on is more
\* than any source of the model holds and stands for "too many"
TooMany == 127 * TwoTo24 + (TwoTo24 - 1)
AsInt(u) == IF u.hi >= 128 THEN TooMany ELSE u.hi * TwoTo24 + u.lo

\* uint32 subtraction
Sub32(u, k) ==
  IF u.hi = 0 /\ u.lo < k THEN U32(255, TwoTo24 + u.lo - k)
  ELSE IF u.lo < k THEN U32(u.hi - 1, TwoTo24 + u.lo - k)
  ELSE U32(u.hi, u.lo - k)

ShortRead(s) == IF Size(s) = 0 THEN EOF ELSE ErrUnexpectedEOF

\* io.ReadFull(f.r, buf) with len(buf) = n
ReadFull(s, n) ==
  IF Size(s) >= n
  THEN [err |-> Nil, b |-> Take(s, n), rest |-> Drop(s, n)]
  ELSE [err |-> ShortRead(s), b |-> <<>>, rest |-> <<>>]

\* binary.Read(f.r, binary.BigEndian, &uint32)
Read32(s) ==
  LET a == ReadFull(s, 4)
  IN [err |-> a.err, rest |-> a.rest,
      v |-> IF a.err = Nil THEN FromBE32(Plain(a.b)) ELSE W(0)]

\* binary.Read(f.r, binary.BigEndian, &uint8)
Read8(s) ==
  LET a == ReadFull(s, 1)
  IN [err |-> a.err, rest |-> a.rest,
      v |-> IF a.err = Nil THEN Plain(a.b)[1] ELSE 0]

\* what a read method leaves: its error, the frame as far as it was filled
\* in, and the reading half of the Framer
Got(err, frame, r) == [err |-> err, frame |-> frame, r |-> r, cframe |-> frame]

\* RstStreamFrame_read without the test of Status
RstStreamFrame_readAnyStatus(h, r) ==
  LET fr0 == [kind |-> "RstStream", CFHeader |-> h, StreamId |-> W(0), Status |-> W(0)]
      a == Read32(r.src)
      b == Read32(a.rest)
      fr2 == [fr0 EXCEPT !.StreamId = a.v, !.Status = b.v]
  IN IF a.err # Nil THEN Got(a.err, fr0, [r EXCEPT !.src = a.rest])
     ELSE IF b.err # Nil THEN Got(b.err, fr2, [r EXCEPT !.src = b.rest])
     ELSE IF IsZero(fr2.StreamId)
          THEN Got(Error(ZeroStreamId, W(0)), fr2, [r EXCEPT !.src = b.rest])
     ELSE Got(Nil, fr2, [r EXCEPT !.src = b.rest])

RstStreamFrame_read(h, r) ==
  LET fr0 == [kind |-> "RstStream", CFHeader |-> h, StreamId |-> W(0), Status |-> W(0)]
      a == Read32(r.src)
      b == Read32(a.rest)
      fr1 == [fr0 EXCEPT !.StreamId = a.v]
      fr2 == [fr1 EXCEPT !.Status = b.v]
  IN IF a.err # Nil THEN Got(a.err, fr0, [r EXCEPT !.src = a.rest])
     ELSE IF b.err # Nil THEN Got(b.err, fr1, [r EXCEPT !.src = b.rest])
     ELSE IF IsZero(fr2.Status)
          THEN Got(Error(InvalidControlFrame, fr2.StreamId), fr2, [r EXCEPT !.src = b.rest])
     ELSE IF IsZero(fr2.StreamId)
          THEN Got(Error(ZeroStreamId, W(0)), fr2, [r EXCEPT !.src = b.rest])
     ELSE Got(Nil, fr2, [r EXCEPT !.src = b.rest])

RECURSIVE SettingsLoop(_, _, _)
\* the loop over numSettings entries: [err, fivs, rest]
SettingsLoop(s, left, fivs) ==
  IF left = 0 THEN [err |-> Nil, fivs |-> fivs, rest |-> s]
  ELSE LET a == Read32(s)
           b == Read32(a.rest)
       IN IF a.err # Nil THEN [err |-> a.err, fivs |-> fivs, rest |-> a.rest]
          ELSE IF b.err # Nil THEN [err |-> b.err, fivs |-> fivs, rest |-> b.rest]
          ELSE SettingsLoop(b.rest, left - 1,
                 Append(fivs, [Flag |-> a.v.hi, Id |-> U32(0, a.v.lo), Value |-> b.v]))

SettingsFrame_read(h, r) ==
  LET fr0 == [kind |-> "Settings", CFHeader |-> h, FlagIdValues |-> <<>>]
      a == Read32(r.src)
      l == SettingsLoop(a.rest, AsInt(a.v), <<>>)
  IN IF a.err # Nil THEN Got(a.err, fr0, [r EXCEPT !.src = a.rest])
     ELSE Got(l.err, [fr0 EXCEPT !.FlagIdValues = l.fivs], [r EXCEPT !.src = l.rest])

PingFrame_read(h, r) ==
  LET fr0 == [kind |-> "Ping", CFHeader |-> h, Id |-> W(0)]
      a == Read32(r.src)
      fr1 == [fr0 EXCEPT !.Id = a.v]
      r1 == [r EXCEPT !.src = a.rest]
  IN IF a.err # Nil THEN Got(a.err, fr0, r1)
     ELSE IF IsZero(fr1.Id) THEN Got(Error(ZeroStreamId, W(0)), fr1, r1)
     ELSE IF h.Flags # 0 THEN Got(Error(InvalidControlFrame, fr1.Id), fr1, r1)
     ELSE Got(Nil, fr1, r1)

GoAwayFrame_read(h, r) ==
  LET fr0 == [kind |-> "GoAway", CFHeader |-> h, LastGoodStreamId |-> W(0),
              GoAwayStatus |-> W(0)]
      a == Read32(r.src)
      b == Read32(a.rest)
      fr1 == [fr0 EXCEPT !.LastGoodStreamId = a.v]
      r1 == [r EXCEPT !.src = a.rest]
  IN IF a.err # Nil THEN Got(a.err, fr0, r1)
     ELSE IF h.Flags # 0 THEN Got(Error(InvalidControlFrame, a.v), fr1, r1)
     ELSE IF h.length # 8 THEN Got(Error(InvalidControlFrame, a.v), fr1, r1)
     ELSE IF b.err # Nil THEN Got(b.err, fr1, [r EXCEPT !.src = b.rest])
     ELSE Got(Nil, [fr1 EXCEPT !.GoAwayStatus = b.v], [r EXCEPT !.src = b.rest])

\* WindowUpdateFrame_read without the test of the length
WindowUpdateFrame_readAnyLength(h, r) ==
  LET fr0 == [kind |-> "WindowUpdate", CFHeader |-> h, StreamId |-> W(0),
              DeltaWindowSize |-> W(0)]
      a == Read32(r.src)
      b == Read32(a.rest)
      fr1 == [fr0 EXCEPT !.StreamId = a.v]
      r1 == [r EXCEPT !.src = a.rest]
  IN IF a.err # Nil THEN Got(a.err, fr0, r1)
     ELSE IF h.Flags # 0 THEN Got(Error(InvalidControlFrame, a.v), fr1, r1)
     ELSE IF b.err # Nil THEN Got(b.err, fr1, [r EXCEPT !.src = b.rest])
     ELSE Got(Nil, [fr1 EXCEPT !.DeltaWindowSize = b.v], [r EXCEPT !.src = b.rest])

WindowUpdateFrame_read(h, r) ==
  LET fr0 == [kind |-> "WindowUpdate", CFHeader |-> h, StreamId |-> W(0),
              DeltaWindowSize |-> W(0)]
      a == Read32(r.src)
      b == Read32(a.rest)
      fr1 == [fr0 EXCEPT !.StreamId = a.v]
      r1 == [r EXCEPT !.src = a.rest]
  IN IF a.err # Nil THEN Got(a.err, fr0, r1)
     ELSE IF h.Flags # 0 THEN Got(Error(InvalidControlFrame, a.v), fr1, r1)
     ELSE IF h.length # 8 THEN Got(Error(InvalidControlFrame, a.v), fr1, r1)
     ELSE IF b.err # Nil THEN Got(b.err, fr1, [r EXCEPT !.src = b.rest])
     ELSE Got(Nil, [fr1 EXCEPT !.DeltaWindowSize = b.v], [r EXCEPT !.src = b.rest])

\* ---- the decompressor

\* bufio's fill through headerReader (an io.LimitedReader on f.r): one Read of
\* at most BufSize bytes, at most N bytes, at most what the source holds
CanFill(r) == ~IsZero(r.N) /\ Size(r.src) > 0

Fill(r) ==
  LET got == Min(BufSize, Min(AsInt(r.N), Size(r.src)))
  IN [r EXCEPT !.src = Drop(@, got), !.N = Sub32(@, got),
               !.z.buf = Take(r.src, got)]

RECURSIVE Fetch(_, _, _)
\* n bytes of compressed input: [ok, b, r]
Fetch(r, n, acc) ==
  IF n = 0 THEN [ok |-> TRUE, b |-> acc, r |-> r]
  ELSE IF r.z.buf = <<>>
  THEN IF CanFill(r) THEN Fetch(Fill(r), n, acc)
       ELSE [ok |-> FALSE, b |-> acc, r |-> r]
  ELSE Fetch([r EXCEPT !.z.buf = Drop(@, Min(n, Size(r.z.buf)))],
             n - Min(n, Size(r.z.buf)),
             Cat(acc, Take(r.z.buf, Min(n, Size(r.z.buf)))))

Fail(r, e) == [r EXCEPT !.z.err = e]

\* the end of a block: the empty stored block of the flush
InflateEnd(data, c) ==
  IF ~c.ok THEN Fail(c.r, ErrUnexpectedEOF)
  ELSE IF Plain(c.b) # SyncMarker THEN Fail(c.r, ErrCorrupt)
  ELSE [c.r EXCEPT
          !.z.out = @ \o [i \in 1..Len(data) |-> (data[i] + 256 - Key(c.r.z.k)) % 256],
          !.z.k = @ + 1]

\* the bytes of a block
InflateData(b) ==
  IF ~b.ok THEN Fail(b.r, ErrUnexpectedEOF)
  ELSE InflateEnd(Plain(b.b), Fetch(b.r, 4, <<>>))

\* the length of a block and its complement
InflateLen(r, lens) ==
  IF lens[3] # 255 - lens[1] \/ lens[4] # 255 - lens[2] THEN Fail(r, ErrCorrupt)
  ELSE InflateData(Fetch(r, lens[1] + 256 * lens[2], <<>>))

InflateHead(a) ==
  IF ~a.ok THEN Fail(a.r, ErrUnexpectedEOF) ELSE InflateLen(a.r, Plain(a.b))

\* inflates the next flushed block into z.out, or sets the sticky error: the
\* input ends inside the block, or it is no block of this stream
InflateBlock(r) == InflateHead(Fetch(r, 4, <<>>))

RECURSIVE ZReadFull(_, _)
\* io.ReadFull(f.headerDecompressor, buf) with len(buf) = n: [err, b, r]
ZReadFull(r, n) ==
  IF Len(r.z.out) >= n
  THEN [err |-> Nil, b |-> SubSeq(r.z.out, 1, n),
        r |-> [r EXCEPT !.z.out = SubSeq(@, n + 1, Len(@))]]
  ELSE IF r.z.err # Nil
  THEN [err |-> r.z.err, b |-> <<>>, r |-> [r EXCEPT !.z.out = <<>>]]
  ELSE ZReadFull(InflateBlock(r), n)

\* a reader that failed is dropped with what it had buffered
Dropped(e, r) == [err |-> e, r |-> [r EXCEPT !.z = NoDecompressor]]

\* the stream header: CMF and FLG, then the checksum of the dictionary
ReaderHeader(a) ==
  IF ~a.ok THEN Dropped(ErrUnexpectedEOF, a.r)
  ELSE IF Plain(a.b) # ZlibHeader THEN Dropped(ErrHeader, a.r)
  ELSE [err |-> Nil, r |-> [a.r EXCEPT !.z.made = TRUE]]

\* zlib.NewReaderDict(&f.headerReader, headerDictionary): reads the stream
\* header through a new buffered reader
NewReaderDict(r) == ReaderHeader(Fetch([r EXCEPT !.z = NoDecompressor], 6, <<>>))

\* uncorkHeaderDecompressor without the test for an existing decompressor
uncorkHeaderDecompressorAfresh(r, payloadSize) ==
  NewReaderDict([r EXCEPT !.N = payloadSize])

\* uncorkHeaderDecompressor leaving headerReader.N alone once the
\* decompressor exists
uncorkHeaderDecompressorKeepN(r, payloadSize) ==
  IF r.z.made THEN [err |-> Nil, r |-> r]
  ELSE NewReaderDict([r EXCEPT !.N = payloadSize])

uncorkHeaderDecompressor(r, payloadSize) ==
  IF r.z.made THEN [err |-> Nil, r |-> [r EXCEPT !.N = payloadSize]]
  ELSE NewReaderDict([r EXCEPT !.N = payloadSize])

\* ---- the header block

\* the bytes a header field name may hold (net/textproto)
IsTokenByte(c) ==
  \/ c >= 48 /\ c <= 57
  \/ c >= 65 /\ c <= 90
  \/ c >= 97 /\ c <= 122
  \/ c \in {33, 35, 36, 37, 38, 39, 42, 43, 45, 46, 94, 95, 96, 124, 126}

RECURSIVE CanonicalFrom(_, _)
CanonicalFrom(name, upper) ==
  IF name = <<>> THEN <<>>
  ELSE LET c == IF upper THEN ToUpperByte(Head(name)) ELSE ToLowerByte(Head(name))
       IN <<c>> \o CanonicalFrom(Tail(name), c = 45)

\* textproto.CanonicalMIMEHeaderKey, which http.Header.Add applies to the key
CanonicalMIMEHeaderKey(name) ==
  IF \A i \in 1..Len(name) : IsTokenByte(name[i])
  THEN CanonicalFrom(name, TRUE)
  ELSE name

\* http.Header.Add
Add(h, name, v) ==
  LET key == CanonicalMIMEHeaderKey(name)
  IN [x \in (DOMAIN h) \cup {key} |->
        IF x = key THEN (IF key \in DOMAIN h THEN Append(h[key], v) ELSE <<v>>)
        ELSE h[x]]

RECURSIVE AddAll(_, _, _)
AddAll(h, name, valueList) ==
  IF valueList = <<>> THEN h
  ELSE AddAll(Add(h, name, Head(valueList)), name, Tail(valueList))

\* binary.Read / io.ReadFull on the reader parseHeaderValueBlock was given:
\* the decompressor, or f.r itself when compression is disabled
PlainRead(a, r) == [err |-> a.err, b |-> Plain(a.b), r |-> [r EXCEPT !.src = a.rest]]

RdFull(r, n, compressed) ==
  IF compressed THEN ZReadFull(r, n) ELSE PlainRead(ReadFull(r.src, n), r)

As32(a) == [err |-> a.err, r |-> a.r, v |-> IF a.err = Nil THEN FromBE32(a.b) ELSE W(0)]

Rd32(r, compressed) == As32(RdFull(r, 4, compressed))

\* a read error inside the block: parseHeaderValueBlock returns nil, err
NoHeaders(a) == [err |-> a.err, h |-> <<>>, r |-> a.r]

\* the diagnostic after an entry's name: e, or what the name sets it to
NameCheck(e, name, h, streamId) ==
  IF ToLower(name) \in DOMAIN h THEN Error(DuplicateHeaders, streamId)
  ELSE IF name # ToLower(name) THEN Error(UnlowercasedHeaderName, streamId)
  ELSE e

RECURSIVE HeaderLoop(_, _, _, _, _, _)

\* the value of an entry
EntryValue(vb, compressed, streamId, left, h, e, name) ==
  IF vb.err # Nil THEN NoHeaders(vb)
  ELSE HeaderLoop(vb.r, compressed, streamId, left - 1,
                  AddAll(h, ToLower(name), Split(vb.b)), NameCheck(e, name, h, streamId))

EntryValueLen(vl, compressed, streamId, left, h, e, name) ==
  IF vl.err # Nil THEN NoHeaders(vl)
  ELSE EntryValue(RdFull(vl.r, AsInt(vl.v), compressed), compressed, streamId,
                  left, h, e, name)

\* the name of an entry
EntryName(nb, compressed, streamId, left, h, e) ==
  IF nb.err # Nil THEN NoHeaders(nb)
  ELSE EntryValueLen(Rd32(nb.r, compressed), compressed, streamId, left, h, e, nb.b)

EntryNameLen(nl, compressed, streamId, left, h, e) ==
  IF nl.err # Nil THEN NoHeaders(nl)
  ELSE EntryName(RdFull(nl.r, AsInt(nl.v), compressed), compressed, streamId, left, h, e)

\* the loop over numHeaders entries: [err, h, r]
HeaderLoop(r, compressed, streamId, left, h, e) ==
  IF left = 0 THEN [err |-> e, h |-> h, r |-> r]
  ELSE EntryNameLen(Rd32(r, compressed), compressed, streamId, left, h, e)

HeaderCount(a, compressed, streamId) ==
  IF a.err # Nil THEN NoHeaders(a)
  ELSE HeaderLoop(a.r, compressed, streamId, AsInt(a.v), <<>>, Nil)

parseHeaderValueBlock(r, compressed, streamId) ==
  HeaderCount(Rd32(r, compressed), compressed, streamId)

\* ---- frames with a header block

\* "Connection"
NameConnection == <<67, 111, 110, 110, 101, 99, 116, 105, 111, 110>>
\* "Host"
NameHost == <<72, 111, 115, 116>>
\* "Keep-Alive"
NameKeepAlive == <<75, 101, 101, 112, 45, 65, 108, 105, 118, 101>>
\* "Proxy-Connection"
NameProxyConnection == <<80, 114, 111, 120, 121, 45, 67, 111, 110, 110, 101, 99, 116, 105, 111, 110>>
\* "Transfer-Encoding"
NameTransferEncoding == <<84, 114, 97, 110, 115, 102, 101, 114, 45, 69, 110, 99, 111, 100, 105, 110, 103>>

invalidReqHeaders ==
  {NameConnection, NameHost, NameKeepAlive, NameProxyConnection, NameTransferEncoding}

\* invalidRespHeaders with "Host" in it
invalidRespHeadersWithHost ==
  {NameConnection, NameHost, NameKeepAlive, NameProxyConnection, NameTransferEncoding}

invalidRespHeaders ==
  {NameConnection, NameKeepAlive, NameProxyConnection, NameTransferEncoding}

\* the checks after the header block: banned names, then the stream id
\* CheckHeaders giving up the decompressor with the frame it refuses
CheckHeadersDropping(fr, r, invalidHeaders) ==
  IF \E name \in DOMAIN fr.Headers : name \in invalidHeaders
  THEN Got(Error(InvalidHeaderPresent, fr.StreamId), fr, [r EXCEPT !.z = NoDecompressor])
  ELSE IF IsZero(fr.StreamId)
  THEN Got(Error(ZeroStreamId, W(0)), fr, [r EXCEPT !.z = NoDecompressor])
  ELSE Got(Nil, fr, r)

CheckHeaders(fr, r, invalidHeaders) ==
  IF \E name \in DOMAIN fr.Headers : name \in invalidHeaders
  THEN Got(Error(InvalidHeaderPresent, fr.StreamId), fr, r)
  ELSE IF IsZero(fr.StreamId) THEN Got(Error(ZeroStreamId, W(0)), fr, r)
  ELSE Got(Nil, fr, r)

\* the test of the bounded reader after the block
SizeCheck(p, disabled) ==
  IF ~disabled /\ ((p.err = EOF /\ IsZero(p.r.N)) \/ ~IsZero(p.r.N))
  THEN Error(WrongCompressedPayloadSize, W(0))
  ELSE p.err

Parsed(fr, p, disabled, invalidHeaders) ==
  IF SizeCheck(p, disabled) # Nil
  THEN Got(SizeCheck(p, disabled), [fr EXCEPT !.Headers = p.h], p.r)
  ELSE CheckHeaders([fr EXCEPT !.Headers = p.h], p.r, invalidHeaders)

Uncorked(fr, u, disabled, invalidHeaders) ==
  IF u.err # Nil THEN Got(u.err, fr, u.r)
  ELSE Parsed(fr, parseHeaderValueBlock(u.r, ~disabled, fr.StreamId), disabled,
              invalidHeaders)

\* From "reader := f.r" to the end of readSynStreamFrame, readSynReplyFrame
\* and readHeadersFrame, which differ in the fixed prefix and the banned names.
readHeaderBlock(fr, r, disabled, prefix, invalidHeaders) ==
  Uncorked(fr,
           IF disabled THEN [err |-> Nil, r |-> r]
           ELSE uncorkHeaderDecompressor(r, Sub32(W(fr.CFHeader.length), prefix)),
           disabled, invalidHeaders)

\* binary.Read into a field of the frame: the source after it
After(r, a) == [r EXCEPT !.src = a.rest]

SynStreamSlot(fr, r, d, disabled) ==
  IF d.err # Nil THEN Got(d.err, fr, After(r, d))
  ELSE readHeaderBlock([fr EXCEPT !.Slot = d.v], After(r, d), disabled, 10,
                       invalidReqHeaders)

SynStreamPriority(fr, r, c, disabled) ==
  IF c.err # Nil THEN Got(c.err, fr, After(r, c))
  ELSE SynStreamSlot([fr EXCEPT !.Priority = c.v \div 32], r, Read8(c.rest), disabled)

SynStreamAssoc(fr, r, b, disabled) ==
  IF b.err # Nil THEN Got(b.err, fr, After(r, b))
  ELSE SynStreamPriority([fr EXCEPT !.AssociatedToStreamId = b.v], r, Read8(b.rest),
                         disabled)

SynStreamId(fr, r, a, disabled) ==
  IF a.err # Nil THEN Got(a.err, fr, After(r, a))
  ELSE SynStreamAssoc([fr EXCEPT !.StreamId = a.v], r, Read32(a.rest), disabled)

readSynStreamFrame(h, r, disabled) ==
  SynStreamId([kind |-> "SynStream", CFHeader |-> h, StreamId |-> W(0),
               AssociatedToStreamId |-> W(0), Priority |-> 0, Slot |-> 0,
               Headers |-> <<>>],
              r, Read32(r.src), disabled)

SynReplyId(fr, r, a, disabled) ==
  IF a.err # Nil THEN Got(a.err, fr, After(r, a))
  ELSE readHeaderBlock([fr EXCEPT !.StreamId = a.v], After(r, a), disabled, 4,
                       invalidRespHeaders)

readSynReplyFrame(h, r, disabled) ==
  SynReplyId([kind |-> "SynReply", CFHeader |-> h, StreamId |-> W(0), Headers |-> <<>>],
             r, Read32(r.src), disabled)

\* HeadersId with the two tables exchanged
HeadersIdOddRequest(fr, r, a, disabled) ==
  IF a.err # Nil THEN Got(a.err, fr, After(r, a))
  ELSE readHeaderBlock([fr EXCEPT !.StreamId = a.v], After(r, a), disabled, 4,
                       IF a.v.lo % 2 = 1 THEN invalidReqHeaders ELSE invalidRespHeaders)

HeadersId(fr, r, a, disabled) ==
  IF a.err # Nil THEN Got(a.err, fr, After(r, a))
  ELSE readHeaderBlock([fr EXCEPT !.StreamId = a.v], After(r, a), disabled, 4,
                       IF a.v.lo % 2 = 0 THEN invalidReqHeaders ELSE invalidRespHeaders)

readHeadersFrame(h, r, disabled) ==
  HeadersId([kind |-> "Headers", CFHeader |-> h, StreamId |-> W(0), Headers |-> <<>>],
            r, Read32(r.src), disabled)

\* ---- ReadFrame

NilFrame == [kind |-> "nil"]

parseDataFrame(streamId, r) ==
  LET a == Read32(r.src)
      d == ReadFull(a.rest, a.v.lo)
      frame == [kind |-> "Data", StreamId |-> streamId, Flags |-> a.v.hi, Data |-> d.b]
  IN IF a.err # Nil THEN Got(a.err, NilFrame, [r EXCEPT !.src = a.rest])
     ELSE IF d.err # Nil THEN Got(d.err, NilFrame, [r EXCEPT !.src = d.rest])
     ELSE IF IsZero(streamId) THEN Got(Error(ZeroStreamId, W(0)), NilFrame, [r EXCEPT !.src = d.rest])
     ELSE Got(Nil, frame, [r EXCEPT !.src = d.rest])

\* the keys of cframeCtor
newControlFrame(frameType) ==
  frameType \in {TypeSynStream, TypeSynReply, TypeRstStream, TypeSettings, TypePing,
                 TypeGoAway, TypeHeaders, TypeWindowUpdate}

\* cframe.read(header, f): the dispatch of the controlFrame interface
read(h, r, disabled) ==
  CASE h.frameType = TypeSynStream -> readSynStreamFrame(h, r, disabled)
    [] h.frameType = TypeSynReply -> readSynReplyFrame(h, r, disabled)
    [] h.frameType = TypeRstStream -> RstStreamFrame_read(h, r)
    [] h.frameType = TypeSettings -> SettingsFrame_read(h, r)
    [] h.frameType = TypePing -> PingFrame_read(h, r)
    [] h.frameType = TypeGoAway -> GoAwayFrame_read(h, r)
    [] h.frameType = TypeHeaders -> readHeadersFrame(h, r, disabled)
    [] h.frameType = TypeWindowUpdate -> WindowUpdateFrame_read(h, r)

\* ReadFrame returns no frame with an error; cframe is the frame value the read
\* method was filling in, which parseControlFrame drops
Returned(g) == IF g.err # Nil THEN [g EXCEPT !.frame = NilFrame] ELSE g

\* ControlLength that skips the payload of a frame of unknown type
ControlLengthSkipping(version, frameType, r, a, disabled) ==
  IF a.err # Nil THEN Got(a.err, NilFrame, After(r, a))
  ELSE IF ~newControlFrame(frameType)
       THEN Got(Error(InvalidControlFrame, W(0)), NilFrame,
                [r EXCEPT !.src = Drop(a.rest, Min(a.v.lo, Size(a.rest)))])
  ELSE Returned(read(ControlFrameHeader(version, frameType, a.v.hi, a.v.lo),
                     After(r, a), disabled))

ControlLength(version, frameType, r, a, disabled) ==
  IF a.err # Nil THEN Got(a.err, NilFrame, After(r, a))
  ELSE IF ~newControlFrame(frameType)
       THEN Got(Error(InvalidControlFrame, W(0)), NilFrame, After(r, a))
  ELSE Returned(read(ControlFrameHeader(version, frameType, a.v.hi, a.v.lo),
                     After(r, a), disabled))

parseControlFrame(version, frameType, r, disabled) ==
  ControlLength(version, frameType, r, Read32(r.src), disabled)

FirstWord(r, a, disabled) ==
  IF a.err # Nil THEN Got(a.err, NilFrame, After(r, a))
  ELSE IF TopBit(a.v)
       THEN parseControlFrame((a.v.hi % 128) * 256 + a.v.lo \div 65536,
                              a.v.lo % 65536, After(r, a), disabled)
  ELSE parseDataFrame(U32(a.v.hi % 128, a.v.lo), After(r, a))

\* Framer.ReadFrame on the reading half r: [err, frame, r]
ReadFrameOf(r, disabled) == FirstWord(r, Read32(r.src), disabled)

\* ------------------------------------------------------------ the inputs

B(n) == Bytes(<<n>>)
Na == <<97>>
Nb == <<98>>
NA == <<65>>
Vx == <<120>>
Vy == <<121>>

\* http.Header values the callers write
H0 == <<>>
H1 == Na :> <<Vx>>
H2 == (Na :> <<Vx, Vy>>) @@ (Nb :> <<Vy>>)
H3 == NA :> <<Vy>>
H4 == Na :> <<>>
H5 == Nb :> <<Vx \o <<headerValueSeparator>> \o Vy>>

\* the common header of a frame value before WriteFrame fills it in
Blank(fl) == ControlFrameHeader(0, 0, fl, 0)
Junk(fl) == ControlFrameHeader(2, TypeGoAway, fl, 99)

SynStream(h, sid, assoc, pri, slot, hs) ==
  [kind |-> "SynStream", CFHeader |-> h, StreamId |-> sid,
   AssociatedToStreamId |-> assoc, Priority |-> pri, Slot |-> slot, Headers |-> hs]
SynReply(h, sid, hs) == [kind |-> "SynReply", CFHeader |-> h, StreamId |-> sid, Headers |-> hs]
HeadersF(h, sid, hs) == [kind |-> "Headers", CFHeader |-> h, StreamId |-> sid, Headers |-> hs]
RstStream(h, sid, st) == [kind |-> "RstStream", CFHeader |-> h, StreamId |-> sid, Status |-> st]
Settings(h, fivs) == [kind |-> "Settings", CFHeader |-> h, FlagIdValues |-> fivs]
Ping(h, id) == [kind |-> "Ping", CFHeader |-> h, Id |-> id]
GoAway(h, last, st) ==
  [kind |-> "GoAway", CFHeader |-> h, LastGoodStreamId |-> last, GoAwayStatus |-> st]
WindowUpdate(h, sid, delta) ==
  [kind |-> "WindowUpdate", CFHeader |-> h, StreamId |-> sid, DeltaWindowSize |-> delta]
Data(sid, fl, data) == [kind |-> "Data", StreamId |-> sid, Flags |-> fl, Data |-> data]

\* a stream id with the reserved bit set
Reserved1 == U32(128, 1)

\* the frame values handed to WriteFrame
Frames ==
  { SynStream(Blank(1), W(1), W(0), 3, 2, H1),
    SynStream(Blank(0), W(3), W(1), 7, 0, H2),
    SynStream(Blank(0), W(0), W(0), 0, 0, H1),
    SynReply(Blank(0), W(1), H2),
    SynReply(Junk(1), W(2), H0),
    SynReply(Blank(0), W(0), H1),
    HeadersF(Blank(0), W(1), H3),
    HeadersF(Blank(1), W(2), H1),
    HeadersF(Blank(0), W(0), H1),
    HeadersF(Blank(0), W(5), H4),
    SynReply(Blank(0), W(3), H5),
    RstStream(Blank(1), W(1), W(1)),
    RstStream(Blank(0), W(1), W(0)),
    RstStream(Blank(0), W(0), W(1)),
    RstStream(Junk(0), Reserved1, W(5)),
    Settings(Blank(0), <<>>),
    Settings(Blank(1), <<[Flag |-> 1, Id |-> W(4), Value |-> W(100)]>>),
    Settings(Blank(0), <<[Flag |-> 2, Id |-> U32(1, 7), Value |-> U32(255, 1)],
                         [Flag |-> 0, Id |-> W(1), Value |-> W(0)]>>),
    Ping(Blank(1), W(1)),
    Ping(Junk(0), U32(200, 7)),
    Ping(Blank(0), W(0)),
    GoAway(Blank(1), W(1), W(0)),
    GoAway(Blank(0), W(0), W(1)),
    WindowUpdate(Blank(1), W(1), W(1)),
    WindowUpdate(Blank(0), W(0), W(1)),
    Data(W(1), 1, <<>>),
    Data(W(2), 0, Bytes(<<5, 7>>)),
    Data(W(0), 0, B(5)),
    Data(Reserved1, 0, B(5)),
    Data(W(1), 2, <<Run(MaxDataLength, 0)>>),
    Data(W(1), 0, <<Run(MaxDataLength + 1, 0)>>),
    Data(W(1), 0, <<Run(DataLengthLimit, 0)>>) }

HasHeaders(frame) == frame.kind \in {"SynStream", "SynReply", "Headers"}

\* the orders in which a map iteration may visit the keys of h
Orders(h) ==
  {o \in [1..Cardinality(DOMAIN h) -> DOMAIN h] :
     \A i, j \in DOMAIN o : i # j => o[i] # o[j]}

\* a control frame as some peer puts it on the wire
Wire(version, type, flags, length, payload) ==
  Bytes(BE16(32768 + version) \o BE16(type) \o BE32(U32(flags, length)) \o payload)

\* the byte strings a peer that is not this codec sends
WireFrames ==
  { Wire(3, TypePing, 0, 4, BE32(W(1))),
    Wire(3, TypePing, 0, 4, BE32(W(0))),
    Wire(3, TypePing, 1, 4, BE32(W(1))),
    Wire(3, TypePing, 1, 4, BE32(W(0))),
    Wire(3, TypePing, 0, 8, BE32(W(1)) \o BE32(W(0))),
    Wire(2, TypePing, 0, 4, BE32(W(9))),
    Wire(3, TypePing, 1, 0, <<>>),
    Wire(3, TypeRstStream, 0, 8, BE32(W(1)) \o BE32(W(1))),
    Wire(3, TypeRstStream, 0, 8, BE32(W(1)) \o BE32(W(0))),
    Wire(3, TypeRstStream, 0, 8, BE32(W(0)) \o BE32(W(1))),
    Wire(3, TypeRstStream, 0, 8, BE32(W(0)) \o BE32(W(0))),
    Wire(3, TypeRstStream, 1, 12, BE32(W(1)) \o BE32(W(2)) \o BE32(W(0))),
    Wire(3, TypeGoAway, 0, 8, BE32(W(1)) \o BE32(W(0))),
    Wire(3, TypeGoAway, 1, 8, BE32(W(1)) \o BE32(W(0))),
    Wire(3, TypeGoAway, 0, 4, BE32(W(1))),
    Wire(3, TypeGoAway, 0, 0, <<>>),
    Wire(3, TypeGoAway, 0, 12, BE32(W(1)) \o BE32(W(0)) \o BE32(W(0))),
    Wire(3, TypeWindowUpdate, 0, 8, BE32(W(1)) \o BE32(W(1))),
    Wire(3, TypeWindowUpdate, 0, 8, BE32(W(0)) \o BE32(W(1))),
    Wire(3, TypeWindowUpdate, 2, 8, BE32(W(1)) \o BE32(W(1))),
    Wire(3, TypeWindowUpdate, 0, 4, BE32(W(1))),
    Wire(3, TypeWindowUpdate, 1, 0, <<>>),
    Wire(3, TypeWindowUpdate, 0, 16, BE32(W(1)) \o BE32(W(1)) \o BE32(W(0)) \o BE32(W(0))),
    Wire(3, TypeSettings, 0, 12, BE32(W(1)) \o BE32(U32(1, 4)) \o BE32(W(100))),
    Wire(3, TypeSettings, 0, 4, BE32(W(1)) \o BE32(U32(1, 4)) \o BE32(W(100))),
    Wire(3, 5, 0, 4, BE32(W(1))),
    Bytes(BE32(W(0)) \o BE32(U32(0, 1)) \o <<5>>),
    Bytes(BE32(W(1)) \o BE32(U32(1, 2)) \o <<5, 7>>) }

\* a frame with a header block as a peer puts it on the wire: the entries of
\* the block in wire order, pad bytes after the block that the length counts,
\* short bytes of the payload that the length does not count (the length is 0
\* when that is all of them), and cut bytes that never reach the source
PeerFrame(kind, sid, pri, entries, pad, short, cut) ==
  [kind |-> kind, StreamId |-> sid, pri |-> pri, entries |-> entries, pad |-> pad,
   short |-> short, cut |-> cut]

RECURSIVE PeerEntries(_)
\* the entries as parseHeaderValueBlock reads them
PeerEntries(es) ==
  IF es = <<>> THEN <<>>
  ELSE BE32(W(Len(es[1][1]))) \o es[1][1] \o BE32(W(Len(es[1][2]))) \o es[1][2]
       \o PeerEntries(Tail(es))

\* the payload: the fixed fields, then the block as the peer's compressor
\* emits it after k earlier blocks
PeerPayload(p, k) ==
  (IF p.kind = "SynStream" THEN BE32(p.StreamId) \o BE32(W(0)) \o <<p.pri, 0>>
   ELSE BE32(p.StreamId))
  \o Deflate([k |-> k], BE32(W(Len(p.entries))) \o PeerEntries(p.entries))
  \o p.pad

PeerWire(p, k) ==
  Take(Wire(Version,
            CASE p.kind = "SynStream" -> TypeSynStream
              [] p.kind = "SynReply" -> TypeSynReply
              [] p.kind = "Headers" -> TypeHeaders,
            0, Len(PeerPayload(p, k)) - Min(p.short, Len(PeerPayload(p, k))),
            PeerPayload(p, k)),
       8 + Len(PeerPayload(p, k)) - p.cut)

\* the frames with a header block a peer sends
PeerFrames ==
  {PeerFrame("SynStream", W(1), 96, <<<<ToLower(n), Vx>>>>, <<>>, 0, 0) :
     n \in invalidReqHeaders}
  \cup {PeerFrame("SynReply", W(1), 0, <<<<ToLower(n), Vx>>>>, <<>>, 0, 0) :
          n \in invalidReqHeaders}
  \cup {PeerFrame("Headers", W(i), 0, <<<<ToLower(n), Vx>>>>, <<>>, 0, 0) :
          i \in {1, 2}, n \in {NameHost, NameConnection}}
  \cup { PeerFrame("SynReply", W(1), 0, <<<<Na, Vx>>>>, <<>>, 0, 0),
         PeerFrame("SynStream", W(1), 96, <<<<Na, Vx>>>>, <<>>, 0, 0),
         PeerFrame("SynStream", W(1), 127, <<<<Na, Vx>>>>, <<>>, 0, 0),
         PeerFrame("SynReply", Reserved1, 0, <<<<Na, Vx>>>>, <<>>, 0, 0),
         PeerFrame("Headers", W(0), 0, <<<<Na, Vx>>>>, <<>>, 0, 0),
         PeerFrame("SynReply", W(3), 0, <<<<NA, Vy>>, <<Nb, Vx>>>>, <<>>, 0, 0),
         PeerFrame("SynReply", W(3), 0, <<<<Na, Vx>>, <<NA, Vy>>>>, <<>>, 0, 0),
         \* "foo" twice
         PeerFrame("SynReply", W(5), 0,
                   <<<<<<102, 111, 111>>, Vx>>, <<<<102, 111, 111>>, Vy>>>>, <<>>, 0, 0),
         PeerFrame("Headers", W(5), 0, <<<<Na, Vx>>, <<Na, Vy>>>>, <<>>, 0, 0),
         \* ":a" twice
         PeerFrame("SynReply", W(5), 0, <<<<<<58, 97>>, Vx>>, <<<<58, 97>>, Vy>>>>,
                   <<>>, 0, 0),
         PeerFrame("SynReply", W(1), 0, <<<<Na, Vx>>>>, <<0, 0, 0, 0>>, 0, 0),
         PeerFrame("SynReply", W(1), 0, <<<<Na, Vx>>>>, <<>>, 1, 0),
         PeerFrame("SynReply", W(1), 0, <<<<Na, Vx>>>>, <<>>, 0, 1),
         PeerFrame("SynReply", W(1), 0, <<<<Na, Vx>>>>, <<>>, 0, 9),
         \* a banned name with an uppercase letter, twice, and in stream 0
         PeerFrame("SynStream", W(1), 96, <<<<NameHost, Vx>>>>, <<>>, 0, 0),
         PeerFrame("SynStream", W(1), 96,
                   <<<<ToLower(NameHost), Vx>>, <<ToLower(NameHost), Vy>>>>, <<>>, 0, 0),
         PeerFrame("SynStream", W(0), 96, <<<<ToLower(NameHost), Vx>>>>, <<>>, 0, 0),
         PeerFrame("SynStream", W(0), 96, <<<<NameHost, Vx>>>>, <<>>, 0, 1),
         \* declared length 0
         PeerFrame("SynReply", W(1), 0, <<<<Na, Vx>>>>, <<>>, 99, 0),
         PeerFrame("SynStream", W(1), 96, <<<<Na, Vx>>>>, <<>>, 99, 0) }

\* --------------------------------------------------------------- the state

VARIABLES
  feed,               \* who writes into the pipe: "framer" (WriteFrame) or "peer"
  headerBuf,          \* the writing Framer: its scratch buffer
  headerCompressor,   \* the writing Framer: its compressor
  sinkCalls,          \* the Write calls the sink f.w has seen
  sinkFailAt,         \* which of them fails (0: none)
  src,                \* the reading Framer: what its source f.r holds
  headerReader,       \* the reading Framer: headerReader.N
  headerDecompressor, \* the reading Framer: its decompressor
  lastWrite,          \* the last WriteFrame call and what it did
  lastRead,           \* the last ReadFrame call and what it did
  pend,               \* the frames written with success and not yet read
  clean,              \* the pipe has held nothing but such frames
  insync,             \* every ReadFrame so far returned the frame at the head of pend
  nframes,            \* frames put on the pipe
  nreads,             \* ReadFrame calls
  nblocks,            \* header blocks [written with success, read with success]
  sink,               \* what a Framer that writes elsewhere than into the pipe emitted
  wpos                \* where its WriteFrame call stands

vars == <<feed, headerBuf, headerCompressor, sinkCalls, sinkFailAt, src, headerReader,
          headerDecompressor, lastWrite, lastRead, pend, clean, insync, nframes,
          nreads, nblocks, sink, wpos>>

\* NewFramer leaves headerCompressionDisabled at its zero value
headerCompressionDisabled == FALSE

NoWrite == [frame |-> NilFrame, after |-> NilFrame, err |-> Nil, out |-> <<>>, done |-> FALSE]
NoRead == [frame |-> NilFrame, cframe |-> NilFrame, err |-> Nil, consumed |-> 0,
           avail |-> 0, head |-> <<>>, expect |-> NilFrame, sync |-> FALSE,
           at |-> FALSE, exact |-> FALSE]

\* no WriteFrame call under way; serial is what the calls made so far emit
\* when nothing runs between their steps
Idle(serial) == [at |-> "idle", frame |-> NilFrame, m |-> NilFrame, serial |-> serial]

\* NewFramer on both ends of an empty pipe
Fresh ==
  /\ headerBuf = <<>>
  /\ headerCompressor = [k |-> 0]
  /\ sinkCalls = 0
  /\ src = <<>>
  /\ headerReader = W(0)
  /\ headerDecompressor = NoDecompressor
  /\ lastWrite = NoWrite
  /\ lastRead = NoRead
  /\ pend = <<>>
  /\ clean = TRUE
  /\ insync = TRUE
  /\ nframes = 0
  /\ nreads = 0
  /\ nblocks = <<0, 0>>
  /\ sink = <<>>
  /\ wpos = Idle(<<>>)

Init == feed \in {"framer", "peer"} /\ sinkFailAt = 0 /\ Fresh

RECURSIVE Flat(_)
\* the bytes of a sequence of sink writes
Flat(out) == IF out = <<>> THEN <<>> ELSE Cat(Head(out), Flat(Tail(out)))

\* the state after a WriteFrame call: m is what the write method did, e what
\* reached the sink
Wrote(frame, m, e) ==
  /\ headerCompressor' = m.headerCompressor
  /\ headerBuf' = IF e.done /\ m.reset THEN <<>> ELSE m.headerBuf
  /\ sinkCalls' = e.calls
  /\ src' = Cat(src, Flat(e.out))
  /\ lastWrite' = [frame |-> frame, after |-> m.frame, err |-> e.err,
                   out |-> e.out, done |-> e.done]
  /\ pend' = IF e.err = Nil
             THEN Append(pend, [frame |-> m.frame, size |-> Size(Flat(e.out)), ok |-> clean])
             ELSE pend
  /\ clean' = (clean /\ (e.err = Nil \/ (e.out = <<>> /\ m.headerBuf = headerBuf
                                        /\ m.headerCompressor = headerCompressor)))
  /\ nblocks' = IF e.err = Nil /\ HasHeaders(frame)
                THEN <<nblocks[1] + 1, nblocks[2]>> ELSE nblocks

Marshalled(frame, m) == Wrote(frame, m, Emit(m.script, <<>>, sinkCalls, sinkFailAt))

\* f.WriteFrame(frame), the sink being the peer's source
WriteFrame ==
  /\ feed = "framer"
  /\ nframes < MaxFrames
  /\ \E frame \in Frames :
     \E order \in (IF HasHeaders(frame) THEN Orders(frame.Headers) ELSE {<<>>}) :
       Marshalled(frame,
                  write([headerBuf |-> headerBuf, headerCompressor |-> headerCompressor,
                         headerCompressionDisabled |-> headerCompressionDisabled],
                        frame, order))
  /\ nframes' = nframes + 1
  /\ UNCHANGED <<feed, sinkFailAt, headerReader, headerDecompressor, lastRead, insync,
                 nreads, sink, wpos>>

\* a peer that is not this codec writes a frame into the pipe
PeerSend ==
  /\ feed = "peer"
  /\ nframes < MaxFrames
  /\ \E bs \in WireFrames : src' = Cat(src, bs)
  /\ nframes' = nframes + 1
  /\ clean' = FALSE
  /\ UNCHANGED <<feed, headerBuf, headerCompressor, sinkCalls, sinkFailAt, headerReader,
                 headerDecompressor, lastWrite, lastRead, pend, insync, nreads, nblocks,
                 sink, wpos>>

\* The source stands at the first byte of the oldest frame not yet read:
\* every call so far took the bytes of one frame, no more and no less,
\* whatever it returned, and the frames were of the length they declared.
AtFrame == (nreads = 0 \/ lastRead.exact) /\ pend # <<>> /\ Head(pend).ok

\* Returns that leaves the scratch buffer empty
ReturnsScratchReset(g) ==
  /\ src' = g.r.src
  /\ headerReader' = g.r.N
  /\ headerDecompressor' = g.r.z
  /\ headerBuf' = <<>>
  /\ UNCHANGED headerCompressor
  /\ lastRead' = [frame |-> g.frame, cframe |-> g.cframe, err |-> g.err,
                  consumed |-> Size(src) - Size(g.r.src),
                  avail |-> Size(src),
                  head |-> Plain(Take(src, 16)),
                  expect |-> IF pend = <<>> THEN NilFrame ELSE Head(pend).frame,
                  sync |-> insync /\ pend # <<>> /\ Head(pend).ok,
                  at |-> AtFrame,
                  exact |-> AtFrame /\ Size(src) - Size(g.r.src) = Head(pend).size]
  /\ insync' = (insync /\ pend # <<>> /\ g.err = Nil
                 /\ Size(src) - Size(g.r.src) = Head(pend).size)
  /\ nblocks' = IF g.err = Nil /\ HasHeaders(g.frame)
                THEN <<nblocks[1], nblocks[2] + 1>> ELSE nblocks

\* the state after a ReadFrame call that returned g: the reading half as the
\* call left it, the scratch buffer and the compressor as they were
Returns(g) ==
  /\ src' = g.r.src
  /\ UNCHANGED <<headerBuf, headerCompressor>>
  /\ headerReader' = g.r.N
  /\ headerDecompressor' = g.r.z
  /\ lastRead' = [frame |-> g.frame, cframe |-> g.cframe, err |-> g.err,
                  consumed |-> Size(src) - Size(g.r.src),
                  avail |-> Size(src),
                  head |-> Plain(Take(src, 16)),
                  expect |-> IF pend = <<>> THEN NilFrame ELSE Head(pend).frame,
                  sync |-> insync /\ pend # <<>> /\ Head(pend).ok,
                  at |-> AtFrame,
                  exact |-> AtFrame /\ Size(src) - Size(g.r.src) = Head(pend).size]
  /\ insync' = (insync /\ pend # <<>> /\ g.err = Nil
                 /\ Size(src) - Size(g.r.src) = Head(pend).size)
  /\ nblocks' = IF g.err = Nil /\ HasHeaders(g.frame)
                THEN <<nblocks[1], nblocks[2] + 1>> ELSE nblocks

\* f.ReadFrame() on the reading Framer, the pipe holding something
ReadFrame ==
  /\ src # <<>>
  /\ nreads <= MaxFrames
  /\ Returns(ReadFrameOf([src |-> src, N |-> headerReader, z |-> headerDecompressor],
                         headerCompressionDisabled))
  /\ pend' = IF pend = <<>> THEN pend ELSE Tail(pend)
  /\ nreads' = nreads + 1
  /\ UNCHANGED <<feed, sinkCalls, sinkFailAt, lastWrite, clean, nframes, sink, wpos>>

Next == WriteFrame \/ PeerSend \/ ReadFrame

Spec == Init /\ [][Next]_vars

\* ---- a peer that sends frames with header blocks

\* the length the peer declared is the length of what it put on the wire
Honest(p) == p.pad = <<>> /\ p.short = 0 /\ p.cut = 0

\* The peer writes a frame with a header block into the pipe.  It sends
\* nothing else, so its compressor has flushed nframes blocks before.
PeerSendHeaders ==
  /\ feed \in {"wire", "seam"}
  /\ nframes < MaxFrames
  /\ \E p \in (IF feed = "seam"
              THEN {q \in PeerFrames : q.entries = <<<<Na, Vx>>>> /\ q.pri # 127
                                       /\ q.StreamId = W(1) /\ Honest(q)}
              ELSE PeerFrames) :
       /\ src' = Cat(src, PeerWire(p, nframes))
       /\ pend' = Append(pend, [frame |-> p, size |-> Size(PeerWire(p, nframes)),
                                ok |-> clean])
       /\ clean' = (clean /\ Honest(p))
  /\ nframes' = nframes + 1
  /\ UNCHANGED <<feed, headerBuf, headerCompressor, sinkCalls, sinkFailAt, headerReader,
                 headerDecompressor, lastWrite, lastRead, insync, nreads, nblocks, sink,
                 wpos>>

InitWire == feed = "wire" /\ sinkFailAt = 0 /\ Fresh

NextWire == PeerSendHeaders \/ ReadFrame

SpecWire == InitWire /\ [][NextWire]_vars

\* ---- one Framer that reads what a peer sends while it writes to a sink

\* the frame values handed to its WriteFrame
SeamFrames == {frame \in Frames : HasHeaders(frame) /\ frame.StreamId = W(1)}

\* WriteFrame(frame) up to its first write to the sink: the header block is in
\* the scratch buffer, the length is computed
SeamMarshal ==
  /\ feed = "seam"
  /\ wpos.at = "idle"
  /\ nblocks[1] < MaxFrames
  /\ \E frame \in SeamFrames : \E order \in Orders(frame.Headers) :
       LET m == write([headerBuf |-> headerBuf, headerCompressor |-> headerCompressor,
                       headerCompressionDisabled |-> headerCompressionDisabled],
                      frame, order)
       IN /\ headerBuf' = m.headerBuf
          /\ headerCompressor' = m.headerCompressor
          /\ wpos' = [at |-> "marshalled", frame |-> frame, m |-> m,
                      serial |-> Cat(wpos.serial, Flat(Emit(m.script, <<>>, 0, 0).out))]
  /\ UNCHANGED <<feed, sinkCalls, sinkFailAt, src, headerReader, headerDecompressor,
                 lastWrite, lastRead, pend, clean, insync, nframes, nreads, nblocks, sink>>

\* the rest of that call: the writes to the sink, the last of them of
\* f.headerBuf.Bytes() as it is by then, and headerBuf.Reset()
SeamEmit ==
  /\ feed = "seam"
  /\ wpos.at = "marshalled"
  /\ LET e == Emit(IF wpos.m.reset
                   THEN [wpos.m.script EXCEPT ![Len(wpos.m.script)] = WrRaw(headerBuf)]
                   ELSE wpos.m.script,
                   <<>>, sinkCalls, sinkFailAt)
     IN /\ sink' = Cat(sink, Flat(e.out))
        /\ sinkCalls' = e.calls
        /\ headerBuf' = IF e.done /\ wpos.m.reset THEN <<>> ELSE headerBuf
        /\ lastWrite' = [frame |-> wpos.frame, after |-> wpos.m.frame, err |-> e.err,
                         out |-> e.out, done |-> e.done]
  /\ nblocks' = <<nblocks[1] + 1, nblocks[2]>>
  /\ wpos' = Idle(wpos.serial)
  /\ UNCHANGED <<feed, headerCompressor, sinkFailAt, src, headerReader,
                 headerDecompressor, lastRead, pend, clean, insync, nframes, nreads>>

InitSeam == feed = "seam" /\ sinkFailAt = 0 /\ Fresh

NextSeam == SeamMarshal \/ SeamEmit \/ PeerSendHeaders \/ ReadFrame

SpecSeam == InitSeam /\ [][NextSeam]_vars

\* ---- a sink one of whose Write calls fails

\* the sink fails its sinkFailAt-th call and no other
InitSink == feed = "framer" /\ sinkFailAt \in 1..MaxFailAt /\ Fresh

NextSink == WriteFrame

SpecSink == InitSink /\ [][NextSink]_vars

\* ------------------------------------------------------------- the claims

\* Auxiliary notions the properties are stated with.

\* a stream id as the data model has it: 31 bits, not zero
ValidStreamId(u) == ~TopBit(u) /\ ~IsZero(u)

\* the names a frame's reader bans
BannedFor(v) ==
  IF v.kind = "SynStream" THEN invalidReqHeaders
  ELSE IF v.kind = "SynReply" THEN invalidRespHeaders
  ELSE IF v.StreamId.lo % 2 = 0 THEN invalidReqHeaders ELSE invalidRespHeaders

\* a header map as the data model has it: lowercase names, each with at least
\* one value, no value holding the separator; none of the names banned
ValidHeaders(v) ==
  \A name \in DOMAIN v.Headers :
    /\ name = ToLower(name)
    /\ CanonicalMIMEHeaderKey(name) \notin BannedFor(v)
    /\ v.Headers[name] # <<>>
    /\ \A i \in DOMAIN v.Headers[name] :
         \A j \in DOMAIN v.Headers[name][i] :
           v.Headers[name][i][j] # headerValueSeparator

\* a valid value of a variant
Valid(v) ==
  CASE v.kind = "SynStream" ->
         /\ ValidStreamId(v.StreamId) /\ ~TopBit(v.AssociatedToStreamId)
         /\ v.Priority \in 0..7 /\ v.Slot \in 0..255 /\ ValidHeaders(v)
    [] v.kind \in {"SynReply", "Headers"} -> ValidStreamId(v.StreamId) /\ ValidHeaders(v)
    [] v.kind = "RstStream" -> ValidStreamId(v.StreamId) /\ ~IsZero(v.Status)
    [] v.kind = "Settings" ->
         \A i \in DOMAIN v.FlagIdValues :
           v.FlagIdValues[i].Id.hi = 0 /\ v.FlagIdValues[i].Flag \in 0..255
    [] v.kind = "Ping" -> ~IsZero(v.Id)
    [] v.kind = "GoAway" -> ~TopBit(v.LastGoodStreamId)
    [] v.kind = "WindowUpdate" -> ValidStreamId(v.StreamId) /\ ~TopBit(v.DeltaWindowSize)
    [] v.kind = "Data" -> ValidStreamId(v.StreamId) /\ Size(v.Data) <= MaxDataLength
    [] OTHER -> FALSE

\* a header map by its names in lowercase
Lowered(h) ==
  [name \in {ToLower(k) : k \in DOMAIN h} |->
     h[CHOOSE k \in DOMAIN h : ToLower(k) = name]]

\* equal frames, header names compared in lowercase
SameFrame(a, b) ==
  /\ a.kind = b.kind
  /\ IF HasHeaders(a)
     THEN /\ [a EXCEPT !.Headers = <<>>] = [b EXCEPT !.Headers = <<>>]
          /\ DOMAIN Lowered(a.Headers) = DOMAIN Lowered(b.Headers)
          /\ \A name \in DOMAIN Lowered(a.Headers) :
               Lowered(a.Headers)[name] = Lowered(b.Headers)[name]
     ELSE a = b

\* the bytes the last WriteFrame call put on the sink
Emitted == Flat(lastWrite.out)

\* the word at bytes i+1..i+4 of a plain byte sequence
WordAt(bs, i) == FromBE32(SubSeq(bs, i + 1, i + 4))

\* the last ReadFrame call found a control frame of this type on the wire, with
\* at least n bytes in the source
ReadWire(type, n) ==
  /\ Len(lastRead.head) >= 8
  /\ lastRead.avail >= n
  /\ lastRead.head[1] >= 128
  /\ lastRead.head[3] * 256 + lastRead.head[4] = type

\* C1: Round-trip.  When WriteFrame(v) succeeds for a valid value v of any of
\* the nine variants and the peer Framer, which has read every frame before it,
\* reads the bytes it emitted, ReadFrame returns no error and a frame whose
\* fields equal v, header names compared in lowercase and value lists in order.
C1_RoundTrip ==
  (lastRead.sync /\ Valid(lastRead.expect))
    => (lastRead.err = Nil /\ SameFrame(lastRead.frame, lastRead.expect))

\* a SynStream with two header names, one of them with two values, came back
\* as the second frame of a pipe
C1_RoundTripSeen ==
  /\ lastRead.sync /\ Valid(lastRead.expect) /\ nreads = 2
  /\ lastRead.expect.kind = "SynStream"
  /\ Cardinality(DOMAIN lastRead.expect.Headers) = 2
  /\ lastRead.err = Nil
  /\ lastRead.frame.Priority = 7

\* C2: For every control frame whose 8-byte header WriteFrame emits, the 24-bit
\* length field of that header equals the number of bytes WriteFrame writes to
\* the sink after the header, calls that end with a validation error included.
C2_LengthIsPayload ==
  (lastWrite.frame.kind \notin {"nil", "Data"} /\ Size(Emitted) >= 8)
    => WordAt(Plain(Take(Emitted, 8)), 4).lo = Size(Emitted) - 8

\* C3: No partial frames.  A WriteFrame call has written all bytes of the frame
\* or returns the error of the first failing sink write; one that returns a
\* validation error has written nothing to the sink.
C3_NoPartialFrame ==
  /\ (lastWrite.frame # NilFrame /\ lastWrite.err = Nil) => lastWrite.done
  /\ lastWrite.err.Err \in {ZeroStreamId, InvalidControlFrame, InvalidDataFrame}
       => lastWrite.out = <<>>
  /\ (lastWrite.err # Nil /\ lastWrite.out # <<>>) => lastWrite.err = ErrSink

\* C4: Whenever ReadFrame returns a frame without error it has consumed the
\* 8-byte header and exactly as many payload bytes as the header's length
\* field declares.
C4_ConsumesDeclaredLength ==
  (lastRead.err = Nil /\ lastRead.frame # NilFrame)
    => lastRead.consumed = 8 + WordAt(lastRead.head, 4).lo

\* C5: Compression statefulness and ordering.  When one Framer writes header
\* blocks and a single peer reads the stream in order, the k-th header-bearing
\* frame read carries the header block of the k-th written; the compressor has
\* advanced once per emitted header block and the decompressor once per
\* consumed header block.
C5_BlocksInOrder ==
  /\ (lastRead.sync /\ HasHeaders(lastRead.expect))
       => /\ lastRead.err = Nil
          /\ HasHeaders(lastRead.frame)
          /\ \A name \in DOMAIN lastRead.expect.Headers :
               /\ CanonicalMIMEHeaderKey(ToLower(name)) \in DOMAIN lastRead.frame.Headers
               /\ lastRead.frame.Headers[CanonicalMIMEHeaderKey(ToLower(name))]
                    = Split(Join(lastRead.expect.Headers[name]))
          /\ Cardinality(DOMAIN lastRead.frame.Headers)
               = Cardinality(DOMAIN lastRead.expect.Headers)
  /\ headerCompressor.k = nblocks[1]
  /\ headerDecompressor.k = nblocks[2]

\* the second header block of a stream was read after the first, both in order
C5_SecondBlockSeen ==
  /\ lastRead.sync /\ HasHeaders(lastRead.expect)
  /\ nblocks = <<2, 2>>
  /\ headerDecompressor.k = 2
  /\ lastRead.frame.Headers # <<>>

\* C6: For every variant that carries a stream_id, WriteFrame of a value with
\* stream_id = 0 returns ZeroStreamId and emits nothing, and ReadFrame returns
\* no such frame as a success.
C6_ZeroStreamIdRejected ==
  /\ (/\ lastWrite.frame.kind \in {"SynStream", "SynReply", "RstStream", "Headers",
                                   "WindowUpdate", "Data"}
      /\ IsZero(lastWrite.frame.StreamId))
       => (lastWrite.err = Error(ZeroStreamId, W(0)) /\ lastWrite.out = <<>>)
  /\ (/\ lastRead.err = Nil
      /\ lastRead.frame.kind \in {"SynStream", "SynReply", "RstStream", "Headers",
                                  "WindowUpdate", "Data"})
       => ~IsZero(lastRead.frame.StreamId)

\* C7: RstStream with status 0 is rejected in both directions with
\* InvalidControlFrame, which carries the frame's stream id; with status and
\* stream id both not 0 it is accepted.
C7_RstStreamStatus ==
  /\ (lastWrite.frame.kind = "RstStream" /\ ~IsZero(lastWrite.frame.StreamId))
       => lastWrite.err = (IF IsZero(lastWrite.frame.Status)
                           THEN Error(InvalidControlFrame, lastWrite.frame.StreamId)
                           ELSE Nil)
  /\ ReadWire(TypeRstStream, 16)
       => /\ IsZero(WordAt(lastRead.head, 12))
               => lastRead.err = Error(InvalidControlFrame, WordAt(lastRead.head, 8))
          /\ (~IsZero(WordAt(lastRead.head, 12)) /\ ~IsZero(WordAt(lastRead.head, 8)))
               => /\ lastRead.err = Nil
                  /\ lastRead.frame.kind = "RstStream"
                  /\ lastRead.frame.StreamId = WordAt(lastRead.head, 8)
                  /\ lastRead.frame.Status = WordAt(lastRead.head, 12)

\* a RstStream frame with stream id 1 and status 0 was on the wire and ReadFrame
\* refused it
C7_ZeroStatusRead ==
  /\ ReadWire(TypeRstStream, 16)
  /\ IsZero(WordAt(lastRead.head, 12))
  /\ lastRead.err = Error(InvalidControlFrame, W(1))

\* C8: WriteFrame of a Data frame returns InvalidDataFrame whenever the top bit
\* of stream_id is set or len(data) > 2^24 - 1; for every Data frame emitted the
\* second word holds the flags in its top 8 bits and len(data) in its low 24.
C8_DataLengthFits ==
  lastWrite.frame.kind = "Data"
    => /\ (TopBit(lastWrite.frame.StreamId) \/ Size(lastWrite.frame.Data) > MaxDataLength)
            => lastWrite.err = Error(InvalidDataFrame, lastWrite.frame.StreamId)
       /\ Size(Emitted) >= 8
            => WordAt(Plain(Take(Emitted, 8)), 4)
                 = U32(lastWrite.frame.Flags, Size(lastWrite.frame.Data))

\* C9: Ping.  WriteFrame rejects id = 0 and for any other id emits the 12 bytes
\* 80 03 00 06, flags 0, length 4, id, whatever flags the caller set; ReadFrame
\* of a Ping wire frame returns ZeroStreamId for id = 0, InvalidControlFrame for
\* flags # 0, and Ping{id} otherwise.
C9_Ping ==
  /\ lastWrite.frame.kind = "Ping"
       => IF IsZero(lastWrite.frame.Id)
          THEN lastWrite.err = Error(ZeroStreamId, W(0)) /\ lastWrite.out = <<>>
          ELSE /\ lastWrite.err = Nil
               /\ Plain(Emitted) = <<128, 3, 0, 6, 0, 0, 0, 4>> \o BE32(lastWrite.frame.Id)
  /\ ReadWire(TypePing, 12)
       => IF IsZero(WordAt(lastRead.head, 8))
          THEN lastRead.err = Error(ZeroStreamId, W(0))
          ELSE IF lastRead.head[5] # 0
          THEN lastRead.err = Error(InvalidControlFrame, WordAt(lastRead.head, 8))
          ELSE /\ lastRead.err = Nil
               /\ lastRead.frame.kind = "Ping"
               /\ lastRead.frame.Id = WordAt(lastRead.head, 8)

\* a Ping whose caller had set flags and junk in the common header went out as
\* the twelve bytes of Ping{id}
C9_PingWritten ==
  /\ lastWrite.frame.kind = "Ping"
  /\ lastWrite.frame.CFHeader.Flags # 0
  /\ lastWrite.err = Nil
  /\ Size(Emitted) = 12

C11_UnknownType ==
  (/\ Len(lastRead.head) >= 8
   /\ lastRead.head[1] >= 128
   /\ lastRead.head[3] * 256 + lastRead.head[4] \notin {1, 2, 3, 4, 6, 7, 8, 9})
    => /\ lastRead.err = Error(InvalidControlFrame, W(0))
       /\ lastRead.frame = NilFrame
       /\ lastRead.consumed = 8

\* a control frame of type 5 with four bytes of payload was refused, and the
\* payload is still in the source
C11_UnknownTypeRead ==
  /\ Len(lastRead.head) >= 12
  /\ lastRead.head[1] >= 128
  /\ lastRead.head[3] * 256 + lastRead.head[4] = 5
  /\ WordAt(lastRead.head, 4).lo = 4
  /\ lastRead.err.Err = InvalidControlFrame
  /\ lastRead.avail - lastRead.consumed >= 4

\* Auxiliary notions for the frames a peer sends with a header block.

\* the last ReadFrame read a frame of the peer at its first byte, the peer
\* having sent nothing but frames of the length they declare before it, and
\* every ReadFrame before having returned a frame
WireAligned == lastRead.sync /\ "entries" \in DOMAIN lastRead.expect

\* and that frame is of the length it declares
WireRead == WireAligned /\ Honest(lastRead.expect)

\* the names of the entries of the frame the last ReadFrame was reading
SentNames == {lastRead.expect.entries[i][1] : i \in DOMAIN lastRead.expect.entries}

\* all names in lowercase and no name twice
SentWellFormed ==
  /\ \A n \in SentNames : n = ToLower(n)
  /\ Cardinality(SentNames) = Len(lastRead.expect.entries)

Lowercase(names) == {ToLower(n) : n \in names}

\* C12: A SynStream frame whose block names connection, host, keep-alive,
\* proxy-connection or transfer-encoding is refused with InvalidHeaderPresent
\* and the frame's stream id; a SynReply frame whose block names connection,
\* keep-alive, proxy-connection or transfer-encoding likewise; a SynReply
\* frame whose block names host and nothing else is returned.
C12_BannedHeaders ==
  (WireRead /\ SentWellFormed) =>
    /\ (/\ lastRead.expect.kind = "SynStream"
        /\ SentNames \cap Lowercase({NameConnection, NameHost, NameKeepAlive,
                                     NameProxyConnection, NameTransferEncoding}) # {})
         => /\ lastRead.err = Error(InvalidHeaderPresent, lastRead.expect.StreamId)
            /\ lastRead.frame = NilFrame
    /\ (/\ lastRead.expect.kind = "SynReply"
        /\ SentNames \cap Lowercase({NameConnection, NameKeepAlive,
                                     NameProxyConnection, NameTransferEncoding}) # {})
         => /\ lastRead.err = Error(InvalidHeaderPresent, lastRead.expect.StreamId)
            /\ lastRead.frame = NilFrame
    /\ (/\ lastRead.expect.kind = "SynReply"
        /\ SentNames = {ToLower(NameHost)}
        /\ ValidStreamId(lastRead.expect.StreamId))
         => /\ lastRead.err = Nil
            /\ lastRead.frame.kind = "SynReply"
            /\ lastRead.frame.StreamId = lastRead.expect.StreamId
            /\ DOMAIN lastRead.frame.Headers = {NameHost}

\* a SynReply frame of stream 1 with the one header connection was refused,
\* after a frame before it had been returned
C12_SynReplyConnectionRefused ==
  /\ WireRead
  /\ nreads = 2
  /\ lastRead.expect.kind = "SynReply"
  /\ lastRead.expect.StreamId = W(1)
  /\ SentNames = {ToLower(NameConnection)}
  /\ lastRead.err = Error(InvalidHeaderPresent, W(1))

\* C13: A Headers frame is tested against the names banned in requests
\* (connection, host, keep-alive, proxy-connection, transfer-encoding) when
\* its stream id is even and against those banned in responses (the same
\* without host) when it is odd: a Headers frame whose block names host and
\* nothing else is refused exactly when its stream id is even.
C13_HeadersParity ==
  (WireRead /\ SentWellFormed /\ lastRead.expect.kind = "Headers") =>
    /\ (SentNames \cap Lowercase(IF lastRead.expect.StreamId.lo % 2 = 0
                                 THEN {NameConnection, NameHost, NameKeepAlive,
                                       NameProxyConnection, NameTransferEncoding}
                                 ELSE {NameConnection, NameKeepAlive,
                                       NameProxyConnection, NameTransferEncoding}) # {})
         => /\ lastRead.err = Error(InvalidHeaderPresent, lastRead.expect.StreamId)
            /\ lastRead.frame = NilFrame
    /\ SentNames = {ToLower(NameHost)}
         => /\ (lastRead.err.Err = InvalidHeaderPresent
                  <=> lastRead.expect.StreamId.lo % 2 = 0)
            /\ (lastRead.expect.StreamId.lo % 2 = 1
                  => /\ lastRead.err = Nil
                     /\ lastRead.frame.kind = "Headers"
                     /\ DOMAIN lastRead.frame.Headers = {NameHost})

\* a Headers frame of stream 2 with the one header host was refused
C13_EvenHostRefused ==
  /\ WireRead
  /\ lastRead.expect.kind = "Headers"
  /\ lastRead.expect.StreamId = W(2)
  /\ SentNames = {ToLower(NameHost)}
  /\ lastRead.err = Error(InvalidHeaderPresent, W(2))

\* C14: A block whose names are all lowercase never gives an
\* UnlowercasedHeaderName error.  A block with a name that has an uppercase
\* letter is parsed to its end, each name is entered in the header mapping
\* under its lowercase form, and an UnlowercasedHeaderName error with the
\* frame's stream id is reported.
C14_LowercaseRule ==
  WireRead =>
    /\ (\A n \in SentNames : n = ToLower(n))
         => lastRead.err.Err # UnlowercasedHeaderName
    /\ (/\ \E n \in SentNames : n # ToLower(n)
        /\ Cardinality(Lowercase(SentNames)) = Len(lastRead.expect.entries))
         => /\ lastRead.err = Error(UnlowercasedHeaderName, lastRead.expect.StreamId)
            /\ DOMAIN lastRead.cframe.Headers = Lowercase(SentNames)

\* C15: A block in which two entries have the same name once lowercased is
\* parsed to its end and gives a DuplicateHeaders error with the frame's
\* stream id; a block whose names are pairwise distinct never gives it.
C15_DuplicateDetected ==
  WireRead =>
    /\ Cardinality(Lowercase(SentNames)) < Len(lastRead.expect.entries)
         => /\ lastRead.err = Error(DuplicateHeaders, lastRead.expect.StreamId)
            /\ lastRead.consumed = lastRead.avail
    /\ Cardinality(Lowercase(SentNames)) = Len(lastRead.expect.entries)
         => lastRead.err.Err # DuplicateHeaders

\* C16: With compression enabled, WrongCompressedPayloadSize is returned after
\* the header block whenever the block is shorter than the compressed size the
\* frame declares (the bounded reader's count is not 0) or longer (the block
\* needed bytes beyond it), and in no other case.
C16_WrongSizeReported ==
  (WireAligned /\ lastRead.expect.cut = 0) =>
    (lastRead.err.Err = WrongCompressedPayloadSize
       <=> (lastRead.expect.pad # <<>> \/ lastRead.expect.short # 0))

\* C17: The stream-id words WriteFrame emits (stream id, associated stream
\* id, last good stream id, the stream id of a Data frame) have bit 31 clear,
\* and ReadFrame decodes such a word without its bit 31: the frame it returns
\* is the same whether the bit is set on the wire or not.
C17_ReservedBitsClear ==
  /\ (lastWrite.frame # NilFrame /\ lastWrite.err = Nil) =>
       /\ lastWrite.frame.kind \in {"SynStream", "SynReply", "Headers", "RstStream",
                                    "WindowUpdate", "GoAway"}
            => ~TopBit(WordAt(Plain(Take(Emitted, 16)), 8))
       /\ lastWrite.frame.kind = "SynStream"
            => ~TopBit(WordAt(Plain(Take(Emitted, 16)), 12))
       /\ lastWrite.frame.kind = "Data"
            => ~TopBit(WordAt(Plain(Take(Emitted, 16)), 0))
  /\ (lastRead.frame # NilFrame /\ Len(lastRead.head) >= 12) =>
       /\ lastRead.frame.kind \in {"SynStream", "SynReply", "Headers", "RstStream",
                                   "WindowUpdate"}
            => lastRead.frame.StreamId
                 = U32(WordAt(lastRead.head, 8).hi % 128, WordAt(lastRead.head, 8).lo)
       /\ lastRead.frame.kind = "GoAway"
            => lastRead.frame.LastGoodStreamId
                 = U32(WordAt(lastRead.head, 8).hi % 128, WordAt(lastRead.head, 8).lo)
       /\ lastRead.frame.kind = "Data"
            => lastRead.frame.StreamId
                 = U32(WordAt(lastRead.head, 0).hi % 128, WordAt(lastRead.head, 0).lo)

\* the type code of a control frame variant
Discriminant(kind) ==
  CASE kind = "SynStream" -> 1
    [] kind = "SynReply" -> 2
    [] kind = "RstStream" -> 3
    [] kind = "Settings" -> 4
    [] kind = "Ping" -> 6
    [] kind = "GoAway" -> 7
    [] kind = "Headers" -> 8
    [] kind = "WindowUpdate" -> 9

\* C18: The first word of every control frame WriteFrame emits has bit 31 set,
\* version 3 in bits 30..16 and the type code of the frame's variant in bits
\* 15..0, whatever the caller left in the frame's common header; the first
\* word of every Data frame has bit 31 clear.  The peer's ReadFrame therefore
\* takes every emitted frame for a frame of the variant that was written.
C18_FirstWordOfEmitted ==
  /\ (lastWrite.frame # NilFrame /\ Emitted # <<>>) =>
       /\ Size(Emitted) >= 4
       /\ lastWrite.frame.kind = "Data"
            => ~TopBit(WordAt(Plain(Take(Emitted, 4)), 0))
       /\ lastWrite.frame.kind # "Data"
            => WordAt(Plain(Take(Emitted, 4)), 0)
                 = U32(128, 3 * 65536 + Discriminant(lastWrite.frame.kind))
  /\ lastRead.sync =>
       /\ lastRead.frame # NilFrame => lastRead.frame.kind = lastRead.expect.kind
       /\ lastRead.cframe # NilFrame => lastRead.cframe.kind = lastRead.expect.kind
       /\ lastRead.expect.kind # "Data"
            => \/ lastRead.cframe # NilFrame
               \/ lastRead.err \in {EOF, ErrUnexpectedEOF}

\* a Ping frame whose common header the caller had filled with version 2,
\* type 7 and length 99 was emitted, and the peer returned a Ping frame
C18_JunkHeaderOverwritten ==
  /\ lastWrite.frame = Ping(Junk(0), U32(200, 7))
  /\ Plain(Take(Emitted, 8)) = <<128, 3, 0, 6, 0, 0, 0, 4>>
  /\ lastRead.sync
  /\ lastRead.frame.kind = "Ping"
  /\ lastRead.expect.Id = U32(200, 7)

\* C19: An error of the sink or of the source is returned by WriteFrame or
\* ReadFrame as it is, at the first operation that fails.  In particular,
\* when the source ends in the middle of a header block ReadFrame returns the
\* source's end-of-input error and not an error of the codec.
C19_TransportErrorVerbatim ==
  /\ (lastWrite.frame # NilFrame /\ sinkFailAt # 0 /\ sinkCalls >= sinkFailAt)
       => lastWrite.err = ErrSink
  /\ (/\ WireAligned
      /\ lastRead.expect.pad = <<>>
      /\ lastRead.expect.short = 0
      /\ lastRead.expect.cut > 0
      /\ lastRead.consumed = lastRead.avail)
       => lastRead.err \in {EOF, ErrUnexpectedEOF}

\* C20: ReadFrame touches the source, the bounded reader and the decompressor
\* only, and WriteFrame the sink, the scratch buffer and the compressor only.
\* So when one process reads and another writes on the same Framer, however
\* their steps interleave, the bytes emitted are those the WriteFrame calls
\* emit when run alone, and the frames decoded are those the peer sent.
C20_ReadWriteSeam ==
  /\ wpos.at = "idle" => sink = wpos.serial
  /\ wpos.at = "marshalled" =>
       Cat(sink, Flat(Emit([wpos.m.script EXCEPT ![Len(wpos.m.script)] = WrRaw(headerBuf)],
                           <<>>, 0, 0).out)) = wpos.serial
  /\ headerCompressor.k = nblocks[1] + (IF wpos.at = "marshalled" THEN 1 ELSE 0)
  /\ WireRead =>
       /\ lastRead.err = Nil
       /\ lastRead.frame.kind = lastRead.expect.kind
       /\ lastRead.frame.StreamId = lastRead.expect.StreamId
       /\ lastRead.frame.Headers = (NA :> <<Vx>>)
       /\ headerDecompressor.k = nreads

\* the Framer returned the second frame of the peer between the two steps of
\* its second WriteFrame call, and a frame before it between the two steps of
\* the first
C20_ReadBetweenWriteSteps ==
  /\ wpos.at = "marshalled"
  /\ nblocks[1] = 1
  /\ lastWrite.frame # NilFrame
  /\ lastWrite.err = Nil
  /\ headerBuf # <<>>
  /\ WireRead
  /\ nreads = 2
  /\ lastRead.err = Nil

\* C21: WriteFrame leaves the fields of the caller's frame value other than
\* the common header as they were, for every variant and whether it returns
\* no error, an error of the codec or an error of the sink; of the common
\* header it leaves the flags of SynStream, SynReply, Headers and Settings
\* frames as they were.
C21_OwnFieldsKept ==
  lastWrite.frame # NilFrame =>
    /\ lastWrite.after.kind = lastWrite.frame.kind
    /\ lastWrite.frame.kind = "Data" => lastWrite.after = lastWrite.frame
    /\ lastWrite.frame.kind # "Data" =>
         /\ [lastWrite.after EXCEPT !.CFHeader = lastWrite.frame.CFHeader]
              = lastWrite.frame
         /\ lastWrite.frame.kind \in {"SynStream", "SynReply", "Headers", "Settings"}
              => lastWrite.after.CFHeader.Flags = lastWrite.frame.CFHeader.Flags

\* the sink failed in the middle of a frame with headers, whose common header
\* WriteFrame had filled in by then
C21_KeptOnSinkError ==
  /\ lastWrite.err = ErrSink
  /\ lastWrite.out # <<>>
  /\ HasHeaders(lastWrite.frame)
  /\ lastWrite.frame.Headers # <<>>
  /\ lastWrite.after.CFHeader # lastWrite.frame.CFHeader
  /\ lastWrite.after.Headers = lastWrite.frame.Headers

\* the sink has returned its error to some WriteFrame call
SinkFailed == sinkFailAt # 0 /\ sinkCalls >= sinkFailAt

\* the fixed fields between the common header and the header block
PrefixOf(kind) == IF kind = "SynStream" THEN 10 ELSE 4

\* what the compressor produced for the header block of the frame the last
\* WriteFrame call wrote, the map iteration having gone in this order
OwnBlock(order) ==
  Bytes(Deflate([k |-> headerCompressor.k - 1],
                HeaderBlock(lastWrite.frame.Headers, order)))

\* the last WriteFrame call emitted the common header, the fixed prefix and
\* then its own compressed block, and nothing else
OwnBlockEmitted ==
  \E order \in Orders(lastWrite.frame.Headers) :
    /\ Size(Emitted) = 8 + PrefixOf(lastWrite.frame.kind) + Size(OwnBlock(order))
    /\ Drop(Emitted, 8 + PrefixOf(lastWrite.frame.kind)) = OwnBlock(order)

HeaderTypeOnWire(head) ==
  /\ Len(head) >= 4
  /\ head[1] >= 128
  /\ head[3] * 256 + head[4] \in {TypeSynStream, TypeSynReply, TypeHeaders}

\* C23: a new Framer has no decompressor; a ReadFrame call creates one only
\* when the frame on the wire is a SynStream, SynReply or Headers frame; the
\* first such frame ReadFrame returns has created it; once created it stays
\* and goes on from the blocks it has inflated (it is never replaced).
C23_LazyDecompressor ==
  [][ /\ nreads = 0 => ~headerDecompressor.made
      /\ ~HeaderTypeOnWire(lastRead'.head) => headerDecompressor' = headerDecompressor
      /\ (lastRead' # lastRead /\ lastRead'.err = Nil /\ HasHeaders(lastRead'.frame))
           => (headerDecompressor'.made /\ headerDecompressor'.k = headerDecompressor.k + 1)
      /\ headerDecompressor.made
           => (headerDecompressor'.made /\ headerDecompressor'.k >= headerDecompressor.k)
    ]_vars

\* the decompressor created for the first frame with headers inflated the
\* block of the second one
C23_TwoBlocksOneDecompressor ==
  /\ nreads = 2
  /\ nblocks[2] = 2
  /\ lastRead.err = Nil
  /\ HasHeaders(lastRead.frame)
  /\ headerDecompressor.made
  /\ headerDecompressor.k = 2

\* the length and the fixed prefix of the frame the last ReadFrame call found
\* on the wire
WireLength == lastRead.head[6] * 65536 + lastRead.head[7] * 256 + lastRead.head[8]
WirePrefix == IF lastRead.head[3] * 256 + lastRead.head[4] = TypeSynStream THEN 10 ELSE 4

\* the last ReadFrame call found a frame with a header block, read its fixed
\* prefix and went on to the block, the declared length covering the prefix
BlockReached ==
  /\ HeaderTypeOnWire(lastRead.head)
  /\ lastRead.avail >= 8 + WirePrefix
  /\ WireLength >= WirePrefix

\* C24: when ReadFrame comes to the header block of a frame, the first one
\* or a later one, headerReader.N is the declared length less the fixed prefix
\* (10 for SynStream, 4 for SynReply and Headers), so that after the call it is
\* that number less what the call took from the source after the prefix; and
\* WriteFrame sets the length of such a frame to the size of its compressed
\* block plus the same prefix.
C24_BoundedReaderLimit ==
  /\ BlockReached =>
       AsInt(headerReader) = (WireLength - WirePrefix)
                               - (lastRead.consumed - 8 - WirePrefix)
  /\ (lastWrite.err = Nil /\ HasHeaders(lastWrite.frame)) =>
       \E order \in Orders(lastWrite.frame.Headers) :
         lastWrite.after.CFHeader.length
           = Size(OwnBlock(order)) + PrefixOf(lastWrite.frame.kind)

\* the second frame with headers was read to the end of its block, which the
\* limit set for the first frame would not have allowed
C24_SecondFrameLimit ==
  /\ nblocks = <<2, 2>>
  /\ BlockReached
  /\ lastRead.err = Nil
  /\ WireLength > WirePrefix
  /\ lastRead.consumed = 8 + WireLength
  /\ headerReader = W(0)
  /\ lastWrite.after.CFHeader.length = WireLength

\* C25: WriteFrame of a Settings frame emits the number of entries, the length
\* 8 * count + 4 and, for each entry, a word whose top 8 bits are the entry's
\* flag and whose bottom 24 bits are the low 24 bits of its id, then the
\* value; and the frame ReadFrame returns for those bytes has, entry by entry,
\* the flag that was written, whatever uint32 the caller stored as the id.
C25_SettingsPacking ==
  /\ (lastWrite.err = Nil /\ lastWrite.frame.kind = "Settings") =>
       /\ WordAt(Plain(Emitted), 4).lo = 8 * Len(lastWrite.frame.FlagIdValues) + 4
       /\ WordAt(Plain(Emitted), 8) = W(Len(lastWrite.frame.FlagIdValues))
       /\ Size(Emitted) = 12 + 8 * Len(lastWrite.frame.FlagIdValues)
       /\ \A i \in 1..Len(lastWrite.frame.FlagIdValues) :
            /\ WordAt(Plain(Emitted), 4 + 8 * i).hi = lastWrite.frame.FlagIdValues[i].Flag
            /\ WordAt(Plain(Emitted), 4 + 8 * i).lo = lastWrite.frame.FlagIdValues[i].Id.lo
            /\ WordAt(Plain(Emitted), 8 + 8 * i) = lastWrite.frame.FlagIdValues[i].Value
  /\ (lastRead.sync /\ lastRead.expect.kind = "Settings") =>
       /\ lastRead.err = Nil
       /\ lastRead.frame.kind = "Settings"
       /\ Len(lastRead.frame.FlagIdValues) = Len(lastRead.expect.FlagIdValues)
       /\ \A i \in 1..Len(lastRead.expect.FlagIdValues) :
            lastRead.frame.FlagIdValues[i].Flag = lastRead.expect.FlagIdValues[i].Flag

\* the block of the frame the last ReadFrame call was reading has a name with
\* an uppercase letter or a name twice
SentDiagnosed ==
  \/ \E n \in SentNames : n # ToLower(n)
  \/ Cardinality(Lowercase(SentNames)) < Len(lastRead.expect.entries)

\* and a name its reader bans
SentBanned == Lowercase(SentNames) \cap Lowercase(BannedFor(lastRead.expect)) # {}

\* C26: the checks on a frame with a header block come in the order size of
\* the compressed payload, uppercase or duplicate name, banned name, stream
\* id 0, the banned names being looked for after the whole block was parsed.
\* A frame whose source ends inside the block gives WrongCompressedPayloadSize
\* whatever its names and stream id; a frame with a banned name and an
\* uppercase or duplicate name gives UnlowercasedHeaderName or
\* DuplicateHeaders; a frame with a banned name, no such name and stream id 0
\* gives InvalidHeaderPresent.
C26_CheckOrder ==
  (WireAligned /\ lastRead.expect.pad = <<>> /\ lastRead.expect.short = 0) =>
    /\ (lastRead.expect.cut > 0 /\ lastRead.avail < 8 + lastRead.cframe.CFHeader.length)
         => lastRead.err.Err = WrongCompressedPayloadSize
    /\ (lastRead.expect.cut = 0 /\ SentBanned)
         => /\ lastRead.consumed = 8 + lastRead.cframe.CFHeader.length
            /\ Lowercase(DOMAIN lastRead.cframe.Headers) = Lowercase(SentNames)
    /\ (lastRead.expect.cut = 0 /\ SentBanned /\ SentDiagnosed)
         => /\ lastRead.err.Err \in {UnlowercasedHeaderName, DuplicateHeaders}
            /\ lastRead.err.StreamId = lastRead.expect.StreamId
    /\ (lastRead.expect.cut = 0 /\ SentBanned /\ ~SentDiagnosed)
         => lastRead.err = Error(InvalidHeaderPresent, lastRead.expect.StreamId)

\* C27: a WriteFrame of a SynStream, SynReply or Headers frame that is
\* refused with ZeroStreamId writes nothing to the sink, gives nothing to the
\* compressor and leaves the scratch buffer and the caller's frame as they
\* were; and every frame with headers that WriteFrame did write is returned by
\* the peer's ReadFrame as it was written, whatever calls were refused in
\* between.
C27_RefusedWriteNoEffect ==
  [][ /\ (/\ nframes' = nframes + 1
          /\ HasHeaders(lastWrite'.frame)
          /\ lastWrite'.err = Error(ZeroStreamId, W(0)))
        => /\ UNCHANGED <<headerBuf, headerCompressor, src, sinkCalls, pend>>
           /\ lastWrite'.out = <<>>
           /\ lastWrite'.after = lastWrite'.frame
      /\ (lastRead'.sync /\ HasHeaders(lastRead'.expect) /\ Valid(lastRead'.expect))
        => (lastRead'.err = Nil /\ SameFrame(lastRead'.frame, lastRead'.expect))
    ]_vars

\* a frame with headers went out, a second one of stream 0 was refused and
\* the first one was read back, the compressor having compressed one block
C27_RefusedAfterBlock ==
  /\ nframes = 2
  /\ HasHeaders(lastWrite.frame)
  /\ lastWrite.frame.Headers # <<>>
  /\ lastWrite.err = Error(ZeroStreamId, W(0))
  /\ headerCompressor.k = 1
  /\ headerBuf = <<>>
  /\ lastRead.sync
  /\ lastRead.err = Nil
  /\ HasHeaders(lastRead.frame)
  /\ src = <<>>

\* the errors ReadFrame returns for a frame whose block it has decoded
PostDecodeErrors ==
  {UnlowercasedHeaderName, DuplicateHeaders, InvalidHeaderPresent, ZeroStreamId}

\* C29: a frame with a header block of the declared size that ReadFrame
\* refuses with UnlowercasedHeaderName, DuplicateHeaders, InvalidHeaderPresent
\* or ZeroStreamId has been taken from the source to its last byte and its
\* block inflated to the end; and a well-formed frame that follows frames so
\* taken, refused or not, is returned without error with the stream id and the
\* headers the peer sent.
C29_ReadsOnAfterRefusal ==
  /\ (lastRead.at /\ Honest(lastRead.expect) /\ lastRead.err.Err \in PostDecodeErrors)
       => /\ lastRead.consumed = 8 + lastRead.cframe.CFHeader.length
          /\ lastRead.exact
          /\ headerReader = W(0)
          /\ headerDecompressor.made
          /\ headerDecompressor.k = nreads
          /\ headerDecompressor.buf = <<>>
          /\ headerDecompressor.err = Nil
  /\ (/\ lastRead.at
      /\ Honest(lastRead.expect)
      /\ SentWellFormed
      /\ ~SentBanned
      /\ ValidStreamId(lastRead.expect.StreamId))
       => /\ lastRead.err = Nil
          /\ lastRead.frame.kind = lastRead.expect.kind
          /\ lastRead.frame.StreamId = lastRead.expect.StreamId
          /\ Lowercase(DOMAIN lastRead.frame.Headers) = SentNames
          /\ \A i \in DOMAIN lastRead.expect.entries :
               \E key \in DOMAIN lastRead.frame.Headers :
                 /\ ToLower(key) = lastRead.expect.entries[i][1]
                 /\ lastRead.frame.Headers[key] = <<lastRead.expect.entries[i][2]>>

\* the first frame was refused after its block was decoded and the second
\* one was returned, its block inflated by the same decompressor
C29_SecondFrameAfterRefusal ==
  /\ nreads = 2
  /\ lastRead.at
  /\ ~lastRead.sync
  /\ lastRead.err = Nil
  /\ HasHeaders(lastRead.frame)
  /\ nblocks[2] = 1
  /\ headerDecompressor.k = 2
  /\ src = <<>>

\* C30: for every frame with a header block, whatever length it declares
\* (lengths below the fixed prefix included), the limit headerReader.N is set
\* to is at most the declared length, and the decompressor takes no byte of
\* the source that lies after the payload the frame declares.
C30_WithinDeclaredPayload ==
  (HeaderTypeOnWire(lastRead.head) /\ lastRead.avail >= 8 + WirePrefix) =>
    /\ AsInt(headerReader) <= WireLength - (lastRead.consumed - 8 - WirePrefix)
    /\ lastRead.consumed > 8 + WirePrefix => lastRead.consumed <= 8 + WireLength

====
